---- MODULE Spec2Model ----
(***************************************************************************)
(* A model of the softies simulation core: creature attributes and         *)
(* metabolism (creature_attributes.rs), the Snake and Plankton state       *)
(* machines (creatures/snake.rs, creatures/plankton.rs) and the tick       *)
(* pipeline SoftiesApp::tick_simulation (app.rs).                          *)
(*                                                                         *)
(* Numbers.  The program computes in f32; the model computes in exact      *)
(* fixed point.  Energy and satiety are counted in tenths (20.0 is 200),   *)
(* lengths in centimetres (16.0 m is 1600), velocities in cm/s.  A         *)
(* threshold such as energy < 0.2 * max_energy is written by cross-        *)
(* multiplication (energy * 10 < max_energy * 2), so no rounding enters.   *)
(* dt is counted in whole seconds and is drawn from even numbers wherever  *)
(* the factor 0.5 of update_passive_stats must stay integral.              *)
(***************************************************************************)
EXTENDS Integers, Sequences, FiniteSets, TLC

VARIABLES
    kinds,      \* creatures: Vec<Box<dyn Creature>>, as the type_name() of each entry
    ids,        \* Creature::id() of each entry (the collider user_data tag)
    attrs,      \* the CreatureAttributes of each entry
    cstate,     \* the current_state of each entry
    segs,       \* segment_handles of each entry: a sequence of rigid-body handles
    nav,        \* target_position, timers and last_position of each Snake that is followed
    bodies,     \* rigid_body_set: handle -> [pos, vel, angvel]; absent handles are missing
    qp,         \* query_pipeline: the collider handles it has indexed
    info,       \* all_creatures_info of the running tick
    pc,         \* position inside tick_simulation ("idle" between ticks, "api" for a bare struct)
    idx,        \* loop index of the behaviour pass
    dt,         \* the dt argument of the running tick
    clock,      \* the dt values the frame clock hands to tick_simulation in this run
    solver,     \* the joint poses the physics solver may leave the creatures in, in this run
    test,       \* the test driving the program, if one does (its loop counter and flags)
    hist,       \* history of the running tick (phase log and what each creature saw and did)
    last        \* the last call made on a bare CreatureAttributes, with the struct before it

vars == <<kinds, ids, attrs, cstate, segs, nav, bodies, qp, info, pc, idx, dt, clock, solver, test, hist, last>>

Max2(a, b) == IF a >= b THEN a ELSE b
Min2(a, b) == IF a <= b THEN a ELSE b
Abs(a) == IF a >= 0 THEN a ELSE -a

(***************************************************************************)
(* CreatureAttributes                                                      *)
(***************************************************************************)
NewAttributes(max_energy, energy_recovery_rate, max_satiety, metabolic_rate, diet_type, size, prey_tags, self_tags) ==
    [ energy               |-> max_energy,
      max_energy           |-> max_energy,
      energy_recovery_rate |-> energy_recovery_rate,
      satiety              |-> max_satiety,
      max_satiety          |-> max_satiety,
      metabolic_rate       |-> metabolic_rate,
      diet_type            |-> diet_type,
      size                 |-> size,
      prey_tags            |-> prey_tags,
      self_tags            |-> self_tags ]

\* a plausible slip: satiety decays but the energy drain is left out
NoDrain(a, d) == 0

\* metabolic_rate * dt * 0.5; dt is even wherever this is applied
HalfDrain(a, d) == (a.metabolic_rate * d) \div 2

\* a plausible slip: recovery added before the drain, so a full creature loses the drain
UpdatePassiveStatsRecoverFirst(a, d, is_resting) ==
    LET rec == IF is_resting
               THEN Min2(a.energy + a.energy_recovery_rate * d, a.max_energy)
               ELSE a.energy
    IN [a EXCEPT !.satiety = Max2(a.satiety - a.metabolic_rate * d, 0),
                 !.energy  = Max2(rec - HalfDrain(a, d), 0)]

UpdatePassiveStats(a, d, is_resting) ==
    LET sat     == Max2(a.satiety - a.metabolic_rate * d, 0)
        drained == Max2(a.energy - HalfDrain(a, d), 0)
        energy  == IF is_resting
                   THEN Min2(drained + a.energy_recovery_rate * d, a.max_energy)
                   ELSE drained
    IN [a EXCEPT !.satiety = sat, !.energy = energy]

\* a plausible slip: subtraction without the clamp at zero
ConsumeEnergyUnclamped(a, amount) == [a EXCEPT !.energy = a.energy - amount]

ConsumeEnergy(a, amount) == [a EXCEPT !.energy = Max2(a.energy - amount, 0)]

GainSatiety(a, amount) == [a EXCEPT !.satiety = Min2(a.satiety + amount, a.max_satiety)]

IsHungry(a) == a.satiety * 10 < a.max_satiety * 5

\* a plausible slip: <= for <
IsTiredInclusive(a) == a.energy * 10 <= a.max_energy * 2

IsTired(a) == a.energy * 10 < a.max_energy * 2

(***************************************************************************)
(* A bare CreatureAttributes driven by arbitrary calls: the population is  *)
(* one creature that is never ticked, and pc stays "api".                  *)
(***************************************************************************)
MaxDtSteps == 3
MaxAmount == 6

ApiDts == {2 * k : k \in 0..MaxDtSteps}
ApiAmounts == 0..MaxAmount

NoCall == [op |-> "none", dt |-> 0, is_resting |-> FALSE, amount |-> 0]
NoHist ==
    [log |-> <<>>, beh |-> <<>>, bodies0 |-> <<>>, attrs0 |-> <<>>, cstate0 |-> <<>>,
     stepped |-> <<>>, began |-> <<>>, forces |-> <<>>]
NoTest == [name |-> "none"]

InitAttr ==
    /\ kinds = <<"Plankton">>
    /\ ids = <<0>>
    /\ \E me \in {10, 15}, rr \in {0, 1, 3}, mr \in {0, 1} :
          attrs = <<NewAttributes(me, rr, 10, mr, "Herbivore", 2, {}, {"plankton"})>>
    /\ cstate = <<"Wandering">>
    /\ segs = << <<>> >>
    /\ nav = <<>>
    /\ bodies = <<>>
    /\ qp = {}
    /\ info = <<>>
    /\ pc = "api"
    /\ idx = 0
    /\ dt = 0
    /\ clock = {}
    /\ solver = {}
    /\ test = NoTest
    /\ hist = NoHist
    /\ last = [call |-> NoCall, pre |-> attrs[1]]

ApiFrame ==
    UNCHANGED <<kinds, ids, cstate, segs, nav, bodies, qp, info, pc, idx, dt, clock, solver, test, hist>>

CallUpdatePassiveStats ==
    /\ pc = "api"
    /\ \E d \in ApiDts, r \in BOOLEAN :
          /\ attrs' = [attrs EXCEPT ![1] = UpdatePassiveStats(attrs[1], d, r)]
          /\ last' = [call |-> [op |-> "update_passive_stats", dt |-> d,
                                is_resting |-> r, amount |-> 0],
                      pre |-> attrs[1]]
    /\ ApiFrame

CallConsumeEnergy ==
    /\ pc = "api"
    /\ \E m \in ApiAmounts :
          /\ attrs' = [attrs EXCEPT ![1] = ConsumeEnergy(attrs[1], m)]
          /\ last' = [call |-> [op |-> "consume_energy", dt |-> 0,
                                is_resting |-> FALSE, amount |-> m],
                      pre |-> attrs[1]]
    /\ ApiFrame

CallGainSatiety ==
    /\ pc = "api"
    /\ \E m \in ApiAmounts :
          /\ attrs' = [attrs EXCEPT ![1] = GainSatiety(attrs[1], m)]
          /\ last' = [call |-> [op |-> "gain_satiety", dt |-> 0,
                                is_resting |-> FALSE, amount |-> m],
                      pre |-> attrs[1]]
    /\ ApiFrame

NextAttr == CallUpdatePassiveStats \/ CallConsumeEnergy \/ CallGainSatiety

SpecAttr == InitAttr /\ [][NextAttr]_vars

(***************************************************************************)
(* The world of SoftiesApp (app.rs) and the creatures' geometry.           *)
(***************************************************************************)
WORLD_WIDTH == 2000
WORLD_HEIGHT == 1600
BOUNDS_PADDING == 100
PLANKTON_RADIUS == 8
SNAKE_SEGMENT_RADIUS == 10
SNAKE_SEGMENT_SPACING == 30
WallTag == -1            \* u128::MAX, the user_data of the four wall colliders
InvalidHandle == 0       \* RigidBodyHandle::invalid()
Zero2 == <<0, 0>>

\* the number of segments the model gives a snake (the application gives 10)
SnakeSegments == 3

Plus(p, q) == <<p[1] + q[1], p[2] + q[2]>>
DistSq(p, q) == (p[1] - q[1]) * (p[1] - q[1]) + (p[2] - q[2]) * (p[2] - q[2])

\* Plankton::new / Snake::new followed by the overrides of SoftiesApp::default
PlanktonAttributes ==
    NewAttributes(200, 10, 500, 1, "Herbivore", 2 * PLANKTON_RADIUS, {},
                  {"plankton", "small_food"})

SnakeAttributes ==
    [NewAttributes(1000, 50, 1000, 10, "Carnivore",
                   SnakeSegments * SNAKE_SEGMENT_SPACING,
                   {"small_fish", "worm"}, {"snake", "medium_predator"})
       EXCEPT !.max_energy = 1500, !.energy_recovery_rate = 80,
              !.metabolic_rate = 5, !.energy = 1500]

SegmentCount(kind) == IF kind = "Snake" THEN SnakeSegments ELSE 2

\* where spawn_rapier puts segment j (from 0) of a creature whose first segment is at p
SegmentOffset(kind, j) ==
    IF kind = "Snake" THEN <<j * SNAKE_SEGMENT_SPACING, 0>> ELSE <<0, 10 * j>>

\* handles 1..4 are the fixed wall bodies; creature i's handles follow in spawn order
FirstHandle(pop, i) ==
    LET RECURSIVE Before(_)
        Before(k) == IF k = 0 THEN 0 ELSE SegmentCount(pop[k]) + Before(k - 1)
    IN 5 + Before(i - 1)

Handles(pop, i) == [j \in 1..SegmentCount(pop[i]) |-> FirstHandle(pop, i) + j - 1]

WallBodies ==
    LET hw == WORLD_WIDTH \div 2
        hh == WORLD_HEIGHT \div 2
        wt == 25
    IN <<   [pos |-> <<0, -hh - wt>>, vel |-> Zero2, angvel |-> 0],
            [pos |-> <<0, hh + wt>>, vel |-> Zero2, angvel |-> 0],
            [pos |-> <<-hw - wt, 0>>, vel |-> Zero2, angvel |-> 0],
            [pos |-> <<hw + wt, 0>>, vel |-> Zero2, angvel |-> 0] >>

\* the half extents of the cuboid collider of wall body h
WallHalfExtents(h) ==
    LET hw == WORLD_WIDTH \div 2
        hh == WORLD_HEIGHT \div 2
        wt == 25
    IN IF h \in {1, 2} THEN <<hw + wt, wt>> ELSE <<wt, hh + wt>>

Present(h) == h \in DOMAIN bodies

\* creature and segment number owning body handle h (walls: creature 0)
OwnerOf(h) ==
    IF \E i \in 1..Len(kinds) : \E j \in 1..Len(segs[i]) : segs[i][j] = h
    THEN CHOOSE c \in 1..Len(kinds) : \E j \in 1..Len(segs[c]) : segs[c][j] = h
    ELSE 0

\* collider_set: one collider per body, attached at spawn and never removed
ColliderUserData(h) == IF OwnerOf(h) = 0 THEN WallTag ELSE ids[OwnerOf(h)]

ColliderRadius(h) ==
    LET c == OwnerOf(h)
    IN IF kinds[c] = "Snake" THEN SNAKE_SEGMENT_RADIUS
       ELSE IF segs[c][1] = h THEN PLANKTON_RADIUS ELSE 5

(***************************************************************************)
(* Sensing (Plankton::update_state_and_behavior, sensing phase).           *)
(***************************************************************************)
\* the ball of radius r centred at p intersects the collider of body h
BallIntersects(p, r, h) ==
    IF OwnerOf(h) = 0
    THEN LET c  == bodies[h].pos
             he == WallHalfExtents(h)
             dx == Max2(Abs(p[1] - c[1]) - he[1], 0)
             dy == Max2(Abs(p[2] - c[2]) - he[2], 0)
         IN dx * dx + dy * dy <= r * r
    ELSE DistSq(p, bodies[h].pos) <= (r + ColliderRadius(h)) * (r + ColliderRadius(h))

\* QueryPipeline::intersections_with_shape: the colliders the pipeline has indexed
\* that meet the shape, the excluded rigid body left out
IntersectionsWithShape(p, r, exclude) ==
    {h \in qp : Present(h) /\ h # exclude /\ BallIntersects(p, r, h)}

\* the callback: one BoidNeighborInfo pushed per reported collider that belongs to
\* another Plankton whose snapshot position is within the perception radius
\* (a function from the reporting collider to the pushed entry: the Vec as a bag)
NeighborsOf(i, self_position) ==
    LET r    == PLANKTON_RADIUS * 10
        self == IF Len(segs[i]) > 0 THEN segs[i][1] ELSE InvalidHandle
        hits == IntersectionsWithShape(self_position, r, self)
        Found(h) == {k \in 1..Len(info) : info[k].id = ColliderUserData(h)}
        keep == {h \in hits :
                    /\ ColliderUserData(h) # WallTag
                    /\ ColliderUserData(h) # ids[i]
                    /\ Found(h) # {}
                    /\ LET o == info[CHOOSE k \in Found(h) : \A m \in Found(h) : k <= m]
                       IN /\ o.creature_type_name = "Plankton"
                          /\ DistSq(o.position, self_position) <= r * r}
    IN [h \in keep |->
          LET o == info[CHOOSE k \in Found(h) : \A m \in Found(h) : k <= m]
          IN [position |-> o.position, velocity |-> o.velocity]]

(***************************************************************************)
(* State transitions.                                                      *)
(***************************************************************************)
\* a plausible slip: Resting left only strictly above the comfort threshold
PlanktonNextStateStrictComfort(a, s, y) ==
    LET low  == a.energy * 100 < a.max_energy * 21
        high == a.energy * 100 > a.max_energy * 65
        zmin == (WORLD_HEIGHT * 10) \div 100
    IN IF IsTired(a) THEN "Resting"
       ELSE CASE s = "Resting" -> (IF high THEN "Wandering" ELSE s)
              [] s = "Wandering" -> (IF low THEN "SeekingFood" ELSE s)
              [] s = "SeekingFood" -> (IF high /\ y >= zmin THEN "Wandering" ELSE s)
              [] OTHER -> (IF low THEN "SeekingFood" ELSE "Wandering")

\* a plausible slip: Idle and Fleeing always left for Wandering
PlanktonNextStateIdleWanders(a, s, y) ==
    LET low  == a.energy * 100 < a.max_energy * 21
        high == a.energy * 100 >= a.max_energy * 65
        zmin == (WORLD_HEIGHT * 10) \div 100
    IN IF IsTired(a) THEN "Resting"
       ELSE CASE s = "Resting" -> (IF high THEN "Wandering" ELSE s)
              [] s = "Wandering" -> (IF low THEN "SeekingFood" ELSE s)
              [] s = "SeekingFood" -> (IF high /\ y >= zmin THEN "Wandering" ELSE s)
              [] OTHER -> "Wandering"

\* a plausible slip: SeekingFood left on energy alone
PlanktonNextStateNoZone(a, s, y) ==
    LET low  == a.energy * 100 < a.max_energy * 21
        high == a.energy * 100 >= a.max_energy * 65
    IN IF IsTired(a) THEN "Resting"
       ELSE CASE s = "Resting" -> (IF high THEN "Wandering" ELSE s)
              [] s = "Wandering" -> (IF low THEN "SeekingFood" ELSE s)
              [] s = "SeekingFood" -> (IF high THEN "Wandering" ELSE s)
              [] OTHER -> (IF low THEN "SeekingFood" ELSE "Wandering")

\* plankton.rs: next_state from the attributes, the current state and self_position.y
PlanktonNextState(a, s, y) ==
    LET low  == a.energy * 100 < a.max_energy * 21
        high == a.energy * 100 >= a.max_energy * 65
        zmin == (WORLD_HEIGHT * 10) \div 100
    IN IF IsTired(a) THEN "Resting"
       ELSE CASE s = "Resting" -> (IF high THEN "Wandering" ELSE s)
              [] s = "Wandering" -> (IF low THEN "SeekingFood" ELSE s)
              [] s = "SeekingFood" -> (IF high /\ y >= zmin THEN "Wandering" ELSE s)
              [] OTHER -> (IF low THEN "SeekingFood" ELSE "Wandering")

\* a plausible slip: the hungry rule tested before the tired rule
SnakeNextStateHungryFirst(a, s) ==
    IF IsHungry(a)
    THEN IF s = "Resting"
         THEN (IF a.energy * 10 > a.max_energy * 5 THEN "Wandering" ELSE s)
         ELSE "Wandering"
    ELSE IF IsTired(a) THEN "Resting"
    ELSE IF s = "Resting"
         THEN (IF a.energy * 10 > a.max_energy * 8 THEN "Wandering" ELSE s)
         ELSE "Wandering"

\* a plausible slip: one threshold for entering and leaving Resting
SnakeNextStateNoHysteresis(a, s) == IF IsTired(a) THEN "Resting" ELSE "Wandering"

\* a plausible slip: a snake that is neither tired, hungry nor resting falls to Idle
SnakeNextStateIdleDefault(a, s) ==
    IF IsTired(a) THEN "Resting"
    ELSE IF IsHungry(a)
         THEN IF s = "Resting"
              THEN (IF a.energy * 10 > a.max_energy * 5 THEN "Wandering" ELSE s)
              ELSE "Wandering"
         ELSE IF s = "Resting"
              THEN (IF a.energy * 10 > a.max_energy * 8 THEN "Wandering" ELSE s)
              ELSE "Idle"

\* snake.rs: next_state from the attributes and the current state
SnakeNextState(a, s) ==
    IF IsTired(a) THEN "Resting"
    ELSE IF IsHungry(a)
         THEN IF s = "Resting"
              THEN (IF a.energy * 10 > a.max_energy * 5 THEN "Wandering" ELSE s)
              ELSE "Wandering"
         ELSE IF s = "Resting"
              THEN (IF a.energy * 10 > a.max_energy * 8 THEN "Wandering" ELSE s)
              ELSE "Wandering"

\* Plankton, SeekingFood arm: the light-zone energy gain
InLightZone(y) == y * 100 >= WORLD_HEIGHT * 10 /\ y * 100 <= WORLD_HEIGHT * 45

\* a plausible slip: the light-zone gain granted in every state
PlanktonGainAnyState(a, s, y, d) ==
    IF InLightZone(y) /\ a.energy * 10 < a.max_energy * 9
    THEN [a EXCEPT !.energy = Min2(a.energy + a.energy_recovery_rate * d, a.max_energy)]
    ELSE a

PlanktonGain(a, s, y, d) ==
    IF s = "SeekingFood" /\ InLightZone(y) /\ a.energy * 10 < a.max_energy * 9
    THEN [a EXCEPT !.energy = Min2(a.energy + a.energy_recovery_rate * d, a.max_energy)]
    ELSE a

\* Snake::apply_wiggle: amplitude_scale * frequency_scale * energy_cost_scale * dt in
\* tenths of energy, for the scales the state hands to apply_wiggle (truncated)
WiggleCost(a, s, d) ==
    LET e == a.energy
        m == a.max_energy
    IN CASE s = "Wandering"   -> (d * ((e * (10 * m + 3 * e)) \div m)) \div m
         [] s = "SeekingFood" -> (d * 27 * (((2 * m - e) * (13 * m - 3 * e)) \div m)) \div (8 * m)
         [] s = "Idle"        -> (d * 3) \div 100
         [] s = "Fleeing"     -> d * 60
         [] OTHER             -> 0

(***************************************************************************)
(* What the external collaborators may hand back: the solver's poses, the  *)
(* random number generator's draws.                                        *)
(***************************************************************************)
\* a pose: where the solver leaves a creature's first segment (the others follow in
\* formation) and the velocity it leaves its bodies with
Still(at) == [at |-> at, vel |-> Zero2, angvel |-> 0, folded |-> FALSE]
Moving(at) == [at |-> at, vel |-> <<30, -40>>, angvel |-> 2, folded |-> FALSE]
\* a moving pose in which the solver has bent the chain back on itself
Folded(at) == [at |-> at, vel |-> <<30, -40>>, angvel |-> 2, folded |-> TRUE]

\* where segment j (from 0) of a chain bent back on itself lies, from its first segment
FoldedOffset(kind, j) ==
    IF kind = "Snake"
    THEN <<IF j % 2 = 1 THEN SNAKE_SEGMENT_SPACING ELSE (j \div 2) * SNAKE_SEGMENT_RADIUS, 0>>
    ELSE <<0, 0>>

\* plankton: inside the light-zone band, at its upper edge, below it, above it, and
\* with the second segment beyond the failsafe tolerance
PlanktonPoses ==
    {Still(<<0, 400>>), Moving(<<0, 720>>), Moving(<<0, -300>>), Still(<<0, 760>>),
     Moving(<<0, 895>>)}

\* snake: at its spawn point, near the edge, critically near it, with its second
\* segment beyond the failsafe tolerance, and bent back on itself at its spawn point
SnakePoses ==
    {Still(<<-500, 267>>), Moving(<<-775, 0>>), Moving(<<-790, 0>>), Moving(<<1090, 0>>),
     Folded(<<-500, 267>>)}

\* joint poses of the population <<Snake, Plankton, Plankton>>
TrioScenes ==
    { <<Still(<<-500, 267>>), Still(<<0, 400>>),    Still(<<50, 400>>)>>,
      <<Moving(<<20, 400>>),  Moving(<<0, 400>>),   Moving(<<50, 400>>)>>,
      <<Moving(<<-790, 0>>),  Moving(<<0, -300>>),  Still(<<300, -300>>)>>,
      <<Moving(<<1090, 0>>),  Moving(<<0, 895>>),   Moving(<<0, 760>>)>> }

\* the outcomes of a solver step the model draws from, by population
Scenes(pop) ==
    IF pop = <<"Plankton">> THEN {<<q>> : q \in PlanktonPoses}
    ELSE IF pop = <<"Snake">> THEN {<<q>> : q \in SnakePoses}
    ELSE TrioScenes

\* velocity change of apply_impulse(random_impulse + boid_impulse)
Kicks == {Zero2, <<10, -10>>}

\* base positions drawn by get_safe_position (inside half_size minus 6 radii)
SafeBases == {<<0, 0>>, <<700, -700>>, <<739, 0>>}

\* angular velocity apply_wiggle sets on the head (towards the wander target)
SteerAngvels == {0, 2}

Scale08(v) == <<(v[1] * 8) \div 10, (v[2] * 8) \div 10>>

(***************************************************************************)
(* Snake::check_and_correct_segments on the bodies of creature i; base is  *)
(* the position get_safe_position draws if a reset is needed.              *)
(***************************************************************************)
SnakeNearEdge(p) ==
    LET half_size == WORLD_HEIGHT \div 2
        margin    == SNAKE_SEGMENT_RADIUS * 3
    IN Abs(p[1]) >= half_size - margin \/ Abs(p[2]) >= half_size - margin

SnakeCritical(p) ==
    LET half_size == WORLD_HEIGHT \div 2
        margin    == SNAKE_SEGMENT_RADIUS * 3
    IN Abs(p[1]) * 2 >= half_size * 2 - margin \/ Abs(p[2]) * 2 >= half_size * 2 - margin

\* Snake::check_safety: the indices (from 1) pushed to problematic_segments for the
\* bodies b of snake i, every pair of segments two or more apart and closer than
\* 2.5 * segment_radius
ProblematicSegments(b, i) ==
    {j \in 1..Len(segs[i]) :
        \E m \in 1..Len(segs[i]) :
            /\ (m >= j + 2 \/ j >= m + 2)
            /\ DistSq(b[segs[i][j]].pos, b[segs[i][m]].pos) * 4
                  < 25 * SNAKE_SEGMENT_RADIUS * SNAKE_SEGMENT_RADIUS}

\* Snake::is_within_bounds
IsWithinBounds(p) ==
    LET half_size == WORLD_HEIGHT \div 2
        margin    == SNAKE_SEGMENT_RADIUS * 3
    IN Abs(p[1]) < half_size - margin /\ Abs(p[2]) < half_size - margin

SegIndex(i, h) == CHOOSE j \in 1..Len(segs[i]) : segs[i][j] = h

\* a plausible slip: the loop over the handles stops at the first absent body
OwnBodiesUntilMissing(i) ==
    {h \in DOMAIN bodies :
        \E j \in 1..Len(segs[i]) :
            segs[i][j] = h /\ \A m \in 1..j : segs[i][m] \in DOMAIN bodies}

OwnBodies(i) == {h \in DOMAIN bodies : \E j \in 1..Len(segs[i]) : segs[i][j] = h}

\* a plausible slip: the reset loops over the whole body set, not the snake's handles
ResetToSafePositionAll(b, i, base) ==
    [h \in DOMAIN b |->
        IF OwnerOf(h) # 0
        THEN [pos |-> base, vel |-> Zero2, angvel |-> 0]
        ELSE b[h]]

ResetToSafePosition(b, i, base) ==
    [h \in DOMAIN b |->
        IF h \in OwnBodies(i)
        THEN [pos |-> Plus(base, SegmentOffset("Snake", SegIndex(i, h) - 1)),
              vel |-> Zero2, angvel |-> 0]
        ELSE b[h]]

CheckAndCorrectSegments(b, i, base) ==
    LET damped == [h \in DOMAIN b |->
                     IF h \in OwnBodies(i) /\ SnakeNearEdge(b[h].pos)
                     THEN [b[h] EXCEPT !.vel = Scale08(b[h].vel)]
                     ELSE b[h]]
        needs_reset == \E h \in OwnBodies(i) : SnakeCritical(b[h].pos)
    IN IF needs_reset THEN ResetToSafePosition(damped, i, base) ELSE damped

(***************************************************************************)
(* SoftiesApp::tick_simulation, one action per phase; pc is the position   *)
(* of the single thread inside the call.                                   *)
(***************************************************************************)
N == Len(kinds)

\* a plausible slip: the failsafe pass placed before the solver step
PhaseAfterFailsafeFirst(p) ==
    CASE p = "idle"     -> "snapshot"
      [] p = "snapshot" -> "behave"
      [] p = "behave"   -> "forces"
      [] p = "forces"   -> "failsafe"
      [] p = "failsafe" -> "physics"
      [] p = "physics"  -> "done"
      [] OTHER          -> "idle"

\* the phase that follows phase p in tick_simulation
PhaseAfter(p) ==
    CASE p = "idle"     -> "snapshot"
      [] p = "snapshot" -> "behave"
      [] p = "behave"   -> "forces"
      [] p = "forces"   -> "physics"
      [] p = "physics"  -> "failsafe"
      [] p = "failsafe" -> "done"
      [] OTHER          -> "idle"

Logged(tag) == [hist EXCEPT !.log = Append(hist.log, tag)]

\* a plausible slip: the resting flag is never set
UpdateAllPassiveNeverResting(d) ==
    /\ pc = "idle"
    /\ dt' = d
    /\ attrs' = [i \in 1..N |-> UpdatePassiveStats(attrs[i], d, FALSE)]
    /\ hist' = [NoHist EXCEPT !.log = <<"passive">>, !.began = attrs]
    /\ pc' = PhaseAfter(pc)
    /\ UNCHANGED <<kinds, ids, cstate, segs, nav, bodies, qp, info, idx, clock, solver, test, last>>

\* a plausible slip: every state but Wandering counts as resting
UpdateAllPassiveUnlessWandering(d) ==
    /\ pc = "idle"
    /\ dt' = d
    /\ attrs' = [i \in 1..N |-> UpdatePassiveStats(attrs[i], d, cstate[i] # "Wandering")]
    /\ hist' = [NoHist EXCEPT !.log = <<"passive">>, !.began = attrs]
    /\ pc' = PhaseAfter(pc)
    /\ UNCHANGED <<kinds, ids, cstate, segs, nav, bodies, qp, info, idx, clock, solver, test, last>>

\* app.rs 180-184: the metabolism update of every creature, with the tick's dt
UpdateAllPassive(d) ==
    /\ pc = "idle"
    /\ dt' = d
    /\ attrs' = [i \in 1..N |-> UpdatePassiveStats(attrs[i], d, cstate[i] = "Resting")]
    /\ hist' = [NoHist EXCEPT !.log = <<"passive">>, !.began = attrs]
    /\ pc' = PhaseAfter(pc)
    /\ UNCHANGED <<kinds, ids, cstate, segs, nav, bodies, qp, info, idx, clock, solver, test, last>>

\* app.rs 186-212: one CreatureInfo per creature, from the live bodies
CreatureInfoOf(i) ==
    LET primary == IF Len(segs[i]) > 0 THEN segs[i][1] ELSE InvalidHandle
        found   == primary # InvalidHandle /\ Present(primary)
    IN [ id                  |-> ids[i],
         creature_type_name  |-> kinds[i],
         primary_body_handle |-> primary,
         position            |-> IF found THEN bodies[primary].pos ELSE Zero2,
         velocity            |-> IF found THEN bodies[primary].vel ELSE Zero2,
         radius              |-> IF kinds[i] = "Snake" THEN SNAKE_SEGMENT_RADIUS
                                 ELSE PLANKTON_RADIUS ]

BuildSnapshot ==
    /\ pc = "snapshot"
    /\ info' = [i \in 1..N |-> CreatureInfoOf(i)]
    /\ hist' = [Logged("snapshot") EXCEPT !.bodies0 = bodies, !.attrs0 = attrs,
                                          !.cstate0 = cstate]
    /\ pc' = PhaseAfter(pc)
    /\ idx' = 1
    /\ UNCHANGED <<kinds, ids, attrs, cstate, segs, nav, bodies, qp, dt, clock, solver, test, last>>

\* what the behaviour pass records of creature i: the state it left and chose, the
\* attributes and position the transition read, and the neighbours it sensed
BehaviourRecord(i, to, self_position, nbrs, motors) ==
    [ who |-> i, from |-> cstate[i], to |-> to, tattr |-> attrs[i],
      self_position |-> self_position, nbrs |-> nbrs, before |-> bodies,
      motors |-> motors, nav0 |-> IF i \in DOMAIN nav THEN nav[i] ELSE <<>> ]

AfterBehaviour(i, rec) ==
    /\ hist' = [Logged("behave") EXCEPT !.beh = Append(hist.beh, rec)]
    /\ idx' = i + 1
    /\ pc' = IF i = N THEN PhaseAfter(pc) ELSE pc
    /\ UNCHANGED <<kinds, ids, segs, qp, info, dt, clock, solver, test, last>>

\* Plankton::update_state_and_behavior for creature i
PlanktonBehave(i) ==
    LET primary       == IF Len(segs[i]) > 0 THEN segs[i][1] ELSE InvalidHandle
        self_position == IF Present(primary) THEN bodies[primary].pos ELSE Zero2
        nbrs          == NeighborsOf(i, self_position)
        next_state    == PlanktonNextState(attrs[i], cstate[i], self_position[2])
    IN /\ cstate' = [cstate EXCEPT ![i] = next_state]
       /\ attrs' = [attrs EXCEPT ![i] = PlanktonGain(attrs[i], next_state, self_position[2], dt)]
       /\ IF next_state = "Wandering" /\ Present(primary) /\ primary # InvalidHandle
          THEN \E k \in Kicks :
                  bodies' = [bodies EXCEPT ![primary].vel = Plus(bodies[primary].vel, k)]
          ELSE bodies' = bodies
       /\ nav' = nav
       /\ AfterBehaviour(i, BehaviourRecord(i, next_state, self_position, nbrs, <<>>))

\* Snake::apply_wiggle on the bodies: the head is steered, and damped when too fast
WiggleBodies(b, i, w) ==
    LET head == IF Len(segs[i]) > 0 THEN segs[i][1] ELSE InvalidHandle
    IN IF head \in DOMAIN b
       THEN [b EXCEPT ![head] =
               [@ EXCEPT !.angvel = w,
                         !.vel = IF DistSq(@, Zero2) < 200 * 200 THEN @ ELSE Scale08(@)]]
       ELSE b

(***************************************************************************)
(* The wander target and the stuck detection of a Snake (snake.rs 139-173, *)
(* 624-630).  stuck_timer is kept in thousandths of a second,              *)
(* target_update_timer in units of dt, of which a second of a run that     *)
(* follows a snake's navigation holds NavUnitsPerSecond.                   *)
(***************************************************************************)
NavUnitsPerSecond == 22

\* the values rng.gen_range(3.0..5.0) is drawn from, in tenths of a second
TargetDelays == {30, 49}

\* the targets update_target_position draws, inside [-world_height/2, world_height/2)
WanderTargets == {<<-(WORLD_HEIGHT \div 2), -(WORLD_HEIGHT \div 2)>>, <<WORLD_HEIGHT \div 2 - 1, 0>>}

NoTarget == <<>>

\* Snake::new: no target, timers 0, last_position the origin
NewNav ==
    [target_position |-> NoTarget, target_update_timer |-> 0, stuck_timer |-> 0,
     last_position |-> Zero2, retargeted |-> FALSE]

\* check_and_correct_segments marks the snake for a reset
NeedsReset(b, i) == \E h \in OwnBodies(i) : SnakeCritical(b[h].pos)

\* Snake::check_if_stuck: less than 0.1 m from last_position adds 0.016 s
CheckIfStuck(n, head_present, current_pos) ==
    IF head_present
    THEN [n EXCEPT !.stuck_timer = IF DistSq(current_pos, n.last_position) < 10 * 10
                                   THEN @ + 16 ELSE 0,
                   !.last_position = current_pos]
    ELSE n

\* a plausible slip: the stuck timer left out of the retarget condition
UpdateTargetPositionNoStuck(n, after, target) ==
    IF n.target_position = NoTarget
       \/ n.target_update_timer * 10 > after * NavUnitsPerSecond
    THEN [n EXCEPT !.target_position = target, !.target_update_timer = 0,
                   !.stuck_timer = 0, !.retargeted = TRUE]
    ELSE [n EXCEPT !.retargeted = FALSE]

\* Snake::update_target_position; retargeted records whether this call drew a target
UpdateTargetPosition(n, after, target) ==
    IF n.target_position = NoTarget
       \/ n.target_update_timer * 10 > after * NavUnitsPerSecond
       \/ n.stuck_timer > 1000
    THEN [n EXCEPT !.target_position = target, !.target_update_timer = 0,
                   !.stuck_timer = 0, !.retargeted = TRUE]
    ELSE [n EXCEPT !.retargeted = FALSE]

\* the navigation fields over one update_state_and_behavior call: the reset of
\* check_and_correct_segments, update_target_position, check_if_stuck and
\* target_update_timer += dt
Navigate(n, needs_reset, base, head_present, current_pos, d, after, target) ==
    LET cleared == IF needs_reset
                   THEN [n EXCEPT !.stuck_timer = 0, !.target_position = NoTarget,
                                  !.target_update_timer = 0, !.last_position = base]
                   ELSE n
        checked == CheckIfStuck(UpdateTargetPosition(cleared, after, target),
                                head_present, current_pos)
    IN [checked EXCEPT !.target_update_timer = @ + d]

\* the phases the wave of apply_wiggle may be in when a behaviour call reaches it
WigglePhases == {0, 1}

\* a plausible slip: the resting motors released (no holding force)
SnakeMotorsLimp(i, s, ph) ==
    LET head == IF Len(segs[i]) > 0 THEN segs[i][1] ELSE InvalidHandle
    IN IF s = "Resting"
       THEN [j \in 1..(Len(segs[i]) - 1) |-> [velocity |-> 0, factor |-> 0]]
       ELSE IF Present(head)
       THEN [j \in 1..(Len(segs[i]) - 1) |->
                [velocity |-> IF (ph + j) % 2 = 0 THEN 1 ELSE -1, factor |-> 1]]
       ELSE <<>>

\* the set_motor_velocity(AngX, velocity, factor) calls of one behaviour call, one per
\* joint handle: target 0 with factor 2.0 in Resting, else the wave of apply_wiggle
\* (its sign only) with factor 0.1, issued when the head body is present; factors in
\* tenths
SnakeMotors(i, s, ph) ==
    LET head == IF Len(segs[i]) > 0 THEN segs[i][1] ELSE InvalidHandle
    IN IF s = "Resting"
       THEN [j \in 1..(Len(segs[i]) - 1) |-> [velocity |-> 0, factor |-> 20]]
       ELSE IF Present(head)
       THEN [j \in 1..(Len(segs[i]) - 1) |->
                [velocity |-> IF (ph + j) % 2 = 0 THEN 1 ELSE -1, factor |-> 1]]
       ELSE <<>>

\* Snake::update_state_and_behavior for creature i
SnakeBehave(i) ==
    LET head       == IF Len(segs[i]) > 0 THEN segs[i][1] ELSE InvalidHandle
        next_state == SnakeNextState(attrs[i], cstate[i])
    IN /\ cstate' = [cstate EXCEPT ![i] = next_state]
       /\ attrs' = [attrs EXCEPT ![i] =
                      IF next_state # "Resting" /\ Present(head)
                      THEN ConsumeEnergy(attrs[i], WiggleCost(attrs[i], next_state, dt))
                      ELSE attrs[i]]
       /\ \E base \in SafeBases, w \in SteerAngvels :
             LET corrected == CheckAndCorrectSegments(bodies, i, base)
             IN /\ bodies' = IF next_state # "Resting"
                             THEN WiggleBodies(corrected, i, w)
                             ELSE corrected
                /\ IF i \in DOMAIN nav
                   THEN \E after \in TargetDelays, target \in WanderTargets :
                           nav' = [nav EXCEPT ![i] =
                                     Navigate(nav[i], NeedsReset(bodies, i), base,
                                              Present(head),
                                              IF Present(head) THEN corrected[head].pos
                                              ELSE Zero2,
                                              dt, after, target)]
                   ELSE nav' = nav
       /\ \E ph \in (IF next_state = "Resting" THEN {0} ELSE WigglePhases) :
             AfterBehaviour(i, BehaviourRecord(i, next_state, Zero2, <<>>,
                                               SnakeMotors(i, next_state, ph)))

Behave ==
    /\ pc = "behave"
    /\ idx \in 1..N
    /\ IF kinds[idx] = "Snake" THEN SnakeBehave(idx) ELSE PlanktonBehave(idx)

\* app.rs 235-242: apply_custom_forces of every creature (drag and buoyancy only
\* add forces and set damping, which are inputs of the solver)
\* Plankton::apply_buoyancy_and_drag: target_net_accel_y_factor of a segment at height
\* y for state s, in hundredths, without its oscillation term (a function of x alone)
NetGravityAccelScale(s, y) ==
    CASE s = "SeekingFood" -> (IF y * 100 < WORLD_HEIGHT * 5 THEN 2
                               ELSE IF y * 100 > WORLD_HEIGHT * 35 THEN -20
                               ELSE 0)
      [] s = "Resting"     -> -10
      [] OTHER             -> -5

\* a plausible slip: the factor chosen from the state the tick began with
CustomForcesStale(i) ==
    IF kinds[i] = "Plankton"
    THEN [j \in {m \in 1..Len(segs[i]) : Present(segs[i][m])} |->
             NetGravityAccelScale(hist.cstate0[i], bodies[segs[i][j]].pos[2])]
    ELSE <<>>

\* what apply_custom_forces of creature i makes depend on its state: for a Plankton the
\* factor of each present segment; a Snake's drag does not read the state
CustomForces(i) ==
    IF kinds[i] = "Plankton"
    THEN [j \in {m \in 1..Len(segs[i]) : Present(segs[i][m])} |->
             NetGravityAccelScale(cstate[i], bodies[segs[i][j]].pos[2])]
    ELSE <<>>

ApplyCustomForces ==
    /\ pc = "forces"
    /\ hist' = [Logged("forces") EXCEPT !.forces = [i \in 1..N |-> CustomForces(i)]]
    /\ pc' = PhaseAfter(pc)
    /\ UNCHANGED <<kinds, ids, attrs, cstate, segs, nav, bodies, qp, info, idx, dt, clock, solver, test, last>>

\* app.rs 244-259: physics_pipeline.step with no query pipeline handed in (None):
\* the solver moves the dynamic bodies, qp is not updated
PhysicsStep ==
    /\ pc = "physics"
    /\ \E sc \in solver :
          bodies' = [h \in DOMAIN bodies |->
                       LET i == OwnerOf(h)
                       IN IF i = 0 THEN bodies[h]
                          ELSE [pos |-> Plus(sc[i].at,
                                            IF sc[i].folded
                                            THEN FoldedOffset(kinds[i], SegIndex(i, h) - 1)
                                            ELSE SegmentOffset(kinds[i], SegIndex(i, h) - 1)),
                                vel |-> sc[i].vel, angvel |-> sc[i].angvel]]
    /\ hist' = [Logged("physics") EXCEPT !.beh = <<>>, !.bodies0 = <<>>, !.attrs0 = <<>>,
                                         !.cstate0 = <<>>, !.began = <<>>,
                                         !.forces = <<>>, !.stepped = bodies']
    /\ pc' = PhaseAfter(pc)
    /\ UNCHANGED <<kinds, ids, attrs, cstate, segs, nav, qp, info, idx, dt, clock, solver, test, last>>

\* a plausible slip: only the x coordinate tested
OutOfBoundsXOnly(p) == Abs(p[1]) > WORLD_WIDTH \div 2 + BOUNDS_PADDING

\* app.rs 261-293: the failsafe
OutOfBounds(p) ==
    \/ Abs(p[1]) > WORLD_WIDTH \div 2 + BOUNDS_PADDING
    \/ Abs(p[2]) > WORLD_HEIGHT \div 2 + BOUNDS_PADDING

Escaped(i) == \E h \in OwnBodies(i) : OutOfBounds(bodies[h].pos)

Failsafe ==
    /\ pc = "failsafe"
    /\ bodies' = [h \in DOMAIN bodies |->
                    IF OwnerOf(h) # 0 /\ Escaped(OwnerOf(h))
                    THEN [pos |-> Zero2, vel |-> Zero2, angvel |-> 0]
                    ELSE bodies[h]]
    /\ hist' = Logged("failsafe")
    /\ pc' = PhaseAfter(pc)
    /\ UNCHANGED <<kinds, ids, attrs, cstate, segs, nav, qp, info, idx, dt, clock, solver, test, last>>

\* tick_simulation returns: its locals are dropped, and a test that drives the
\* program looks at the result
TickReturn ==
    /\ pc = "done"
    /\ info' = <<>>
    /\ hist' = NoHist
    /\ idx' = 0
    /\ pc' = IF test = NoTest THEN PhaseAfter(pc) ELSE "observe"
    /\ UNCHANGED <<kinds, ids, attrs, cstate, segs, nav, bodies, qp, dt, clock, solver, test, last>>

TickBegin == \E d \in clock : UpdateAllPassive(d)

Next ==
    \/ TickBegin
    \/ BuildSnapshot
    \/ Behave
    \/ ApplyCustomForces
    \/ PhysicsStep
    \/ Failsafe
    \/ TickReturn

(***************************************************************************)
(* SoftiesApp::default for a population pop: the creatures start Wandering *)
(* with the attributes given, their bodies spawned at rest inside the      *)
(* walls.                                                                  *)
(***************************************************************************)
SpawnScenes(pop) ==
    IF pop = <<"Plankton">> THEN {<<Still(<<0, 400>>)>>, <<Still(<<0, -300>>)>>}
    ELSE IF pop = <<"Snake">> THEN {<<Still(<<-500, 267>>)>>}
    ELSE { <<Still(<<-500, 267>>), Still(<<0, 400>>), Still(<<50, 400>>)>>,
           <<Still(<<-500, 267>>), Still(<<0, -300>>), Still(<<300, -300>>)>> }

Spawned(pop, sc) ==
    WallBodies \o
    [k \in 1..(FirstHandle(pop, Len(pop) + 1) - 5) |->
        LET i == CHOOSE c \in 1..Len(pop) :
                     \E j \in 1..SegmentCount(pop[c]) : Handles(pop, c)[j] = k + 4
            j == k + 4 - FirstHandle(pop, i)
        IN [pos |-> Plus(sc[i].at, SegmentOffset(pop[i], j)), vel |-> Zero2, angvel |-> 0]]

InitApp(pop, a, states, dts, spawns, scenes, tst, at) ==
    /\ kinds = pop
    /\ ids = [i \in 1..Len(pop) |-> i - 1]
    /\ attrs = a
    /\ cstate = states
    /\ segs = [i \in 1..Len(pop) |-> Handles(pop, i)]
    /\ nav = <<>>
    /\ \E sc \in spawns : bodies = Spawned(pop, sc)
    /\ qp = {}
    /\ info = <<>>
    /\ pc = at
    /\ idx = 0
    /\ dt = 0
    /\ clock = dts
    /\ solver = scenes
    /\ test = tst
    /\ hist = NoHist
    /\ last = [call |-> NoCall, pre |-> a[1]]

InitWorld(pop, dts) ==
    InitApp(pop,
            [i \in 1..Len(pop) |->
                IF pop[i] = "Snake" THEN SnakeAttributes ELSE PlanktonAttributes],
            [i \in 1..Len(pop) |-> "Wandering"],
            dts, SpawnScenes(pop), Scenes(pop), NoTest, "idle")

\* a snake and two plankton sharing the world, ticked with a coarse dt
Init == InitWorld(<<"Snake", "Plankton", "Plankton">>, {80})

Spec == Init /\ [][Next]_vars

\* one creature alone in the world, ticked with a finer dt
InitSolo ==
    \/ InitWorld(<<"Plankton">>, {8})
    \/ InitWorld(<<"Snake">>, {2})
    \/ InitWorld(<<"Snake">>, {8})

SpecSolo == InitSolo /\ [][Next]_vars

\* bare structs and worlds together
InitAll == InitAttr \/ Init \/ InitSolo

NextAll == NextAttr \/ Next

SpecAll == InitAll /\ [][NextAll]_vars

(***************************************************************************)
(* tests::plankton_eventually_rests (app.rs), for one plankton.  Here one  *)
(* unit of energy is 1/1200 and one unit of time is the test's fixed_dt    *)
(* (1/60 s), so that every quantity of the run is a whole number: the      *)
(* metabolic rate 0.1/s is 2 per tick, the recovery rate 1.0/s is 20 per   *)
(* tick, max_energy 20 is 24000 and max_satiety 50 is 60000.               *)
(***************************************************************************)
Iterations == 2000

RestAttributes ==
    [NewAttributes(24000, 20, 60000, 2, "Herbivore", 2 * PLANKTON_RADIUS, {},
                   {"plankton", "small_food"})
       EXCEPT !.energy = (24000 * 22) \div 100]

\* where the plankton of a run is spawned and where the solver may leave it: inside the
\* light-zone band (its middle, its lower edge, near its upper edge), below the band,
\* and drifting between places below and above the band
RestRuns ==
    { [spawn |-> p, solver |-> {p}] :
          p \in {<<Still(<<0, 400>>)>>, <<Still(<<0, 160>>)>>, <<Still(<<0, 699>>)>>,
                 <<Still(<<0, -300>>)>>, <<Still(<<0, 159>>)>>} }
    \cup { [spawn  |-> <<Still(<<0, -300>>)>>,
            solver |-> {<<Still(<<0, -300>>)>>, <<Moving(<<300, 760>>)>>}] }

RestTest == [name |-> "rests", i |-> 0, resting_observed |-> FALSE]

InitRest ==
    \E run \in RestRuns :
        InitApp(<<"Plankton">>, <<RestAttributes>>, <<"Wandering">>, {1},
                {run.spawn}, run.solver, RestTest, "idle")

\* the body of the test's loop after tick_simulation: look for a resting plankton,
\* break if there is one, and end after Iterations ticks
TestObserve ==
    /\ pc = "observe"
    /\ test.name = "rests"
    /\ LET seen == \E k \in 1..N : kinds[k] = "Plankton" /\ cstate[k] = "Resting"
       IN /\ test' = [test EXCEPT !.i = @ + 1, !.resting_observed = seen]
          /\ pc' = IF seen \/ test.i + 1 = Iterations THEN "end" ELSE "idle"
    /\ UNCHANGED <<kinds, ids, attrs, cstate, segs, nav, bodies, qp, info, idx, dt, clock,
                   solver, hist, last>>

NextRest == Next \/ TestObserve

SpecRest == InitRest /\ [][NextRest]_vars

(***************************************************************************)
(* A synthetic energy sawtooth: a test that owns one creature whose        *)
(* metabolism is switched off (metabolic_rate and energy_recovery_rate 0), *)
(* sets its energy to lo and hi alternately before each tick, and records  *)
(* the state the creature is in after each tick.                           *)
(***************************************************************************)
MaxSawSteps == 8

CreatureStates == {"Idle", "Wandering", "Resting", "SeekingFood", "Fleeing"}

SawAttributes(kind, hungry) ==
    [(IF kind = "Snake" THEN SnakeAttributes ELSE PlanktonAttributes)
       EXCEPT !.metabolic_rate = 0, !.energy_recovery_rate = 0,
              !.satiety = IF hungry THEN 0 ELSE @]

\* the energy at which the creature may leave Resting (the comfort threshold)
Comfort(kind, hungry, a) ==
    IF kind = "Snake"
    THEN (IF hungry THEN (a.max_energy * 5) \div 10 ELSE (a.max_energy * 8) \div 10)
    ELSE (a.max_energy * 65) \div 100

\* the single thresholds the sawtooth is laid around
SawThresholds(kind, a) ==
    {(a.max_energy * 2) \div 10}
    \cup (IF kind = "Plankton" THEN {(a.max_energy * 21) \div 100} ELSE {})

InitSaw ==
    \E kind \in {"Plankton", "Snake"}, hungry \in BOOLEAN, s0 \in CreatureStates,
       up \in BOOLEAN, below \in {1, 3} :
        LET a  == SawAttributes(kind, hungry)
            at == IF kind = "Snake" THEN <<Still(<<-500, 267>>)>> ELSE <<Still(<<0, 400>>)>>
        IN \E thr \in SawThresholds(kind, a) :
              \E above \in {0, 1, 3, Comfort(kind, hungry, a) - thr - 1} :
                  InitApp(<<kind>>, <<a>>, <<s0>>, {2}, {at}, {at},
                          [name |-> "saw", lo |-> thr - below, hi |-> thr + above,
                           up |-> up, trail |-> <<s0>>, changes |-> 0, steps |-> 0],
                          "set")

SawSet ==
    /\ pc = "set"
    /\ attrs' = [attrs EXCEPT ![1].energy = IF test.up THEN test.hi ELSE test.lo]
    /\ test' = [test EXCEPT !.up = ~@]
    /\ pc' = "idle"
    /\ UNCHANGED <<kinds, ids, cstate, segs, nav, bodies, qp, info, idx, dt, clock, solver,
                   hist, last>>

SawObserve ==
    /\ pc = "observe"
    /\ test.name = "saw"
    /\ LET seen  == Append(test.trail, cstate[1])
           moved == cstate[1] # test.trail[Len(test.trail)]
       IN test' = [test EXCEPT
                     !.trail   = IF Len(seen) > 3 THEN Tail(seen) ELSE seen,
                     !.changes = IF moved THEN @ + 1 ELSE @,
                     !.steps   = @ + 1]
    /\ pc' = IF test.steps + 1 = MaxSawSteps THEN "end" ELSE "set"
    /\ UNCHANGED <<kinds, ids, attrs, cstate, segs, nav, bodies, qp, info, idx, dt, clock,
                   solver, hist, last>>

NextSaw == Next \/ SawSet \/ SawObserve

SpecSaw == InitSaw /\ [][NextSaw]_vars

(***************************************************************************)
(* CreatureAttributes::can_eat / can_be_eaten_by, called on two bare       *)
(* structs.  Tag vectors are modelled as sets (any / contains only test    *)
(* membership).                                                            *)
(***************************************************************************)
\* a plausible slip: >= for > in the size test
CanEatSizeInclusive(self, other) ==
    CASE self.diet_type = "Herbivore" -> FALSE
      [] OTHER -> IF other.size * 10 >= self.size * 15
                  THEN FALSE
                  ELSE \E prey_tag \in self.prey_tags : prey_tag \in other.self_tags

CanEat(self, other) ==
    CASE self.diet_type = "Herbivore" -> FALSE
      [] OTHER -> IF other.size * 10 > self.size * 15
                  THEN FALSE
                  ELSE \E prey_tag \in self.prey_tags : prey_tag \in other.self_tags

CanBeEatenBy(self, potential_predator) == CanEat(potential_predator, self)

DietTypes == {"Herbivore", "Carnivore", "Omnivore"}

\* the structs the two callers are drawn from: sizes 2, 3 and 4 put the ratio below,
\* exactly at and above 1.5
EatStructs ==
    { NewAttributes(10, 1, 10, 1, diet, size, prey, tags) :
          diet \in DietTypes, size \in {2, 3, 4},
          prey \in {{}, {"plankton"}, {"small_fish", "worm"}},
          tags \in {{"plankton", "small_food"}, {"worm"}} }

InitEat ==
    /\ kinds = <<"Snake", "Plankton">>
    /\ ids = <<0, 1>>
    /\ \E a \in EatStructs, b \in EatStructs : attrs = <<a, b>>
    /\ cstate = <<"Wandering", "Wandering">>
    /\ segs = << <<>>, <<>> >>
    /\ nav = <<>>
    /\ bodies = <<>>
    /\ qp = {}
    /\ info = <<>>
    /\ pc = "api"
    /\ idx = 0
    /\ dt = 0
    /\ clock = {}
    /\ solver = {}
    /\ test = NoTest
    /\ hist = NoHist
    /\ last = [call |-> NoCall, pre |-> attrs]

CallCanEat ==
    /\ pc = "api"
    /\ \E i \in 1..N, j \in 1..N :
          last' = [call |-> [op |-> "can_eat", self |-> i, other |-> j,
                             result |-> CanEat(attrs[i], attrs[j])],
                   pre |-> attrs]
    /\ attrs' = attrs
    /\ ApiFrame

CallCanBeEatenBy ==
    /\ pc = "api"
    /\ \E i \in 1..N, j \in 1..N :
          last' = [call |-> [op |-> "can_be_eaten_by", self |-> i, other |-> j,
                             result |-> CanBeEatenBy(attrs[i], attrs[j])],
                   pre |-> attrs]
    /\ attrs' = attrs
    /\ ApiFrame

NextEat == CallCanEat \/ CallCanBeEatenBy

SpecEat == InitEat /\ [][NextEat]_vars

(***************************************************************************)
(* calculate_boid_steering_impulse (plankton.rs).  Positions and           *)
(* velocities are integer vectors; a normalised vector is kept scaled by   *)
(* UnitScale, so the returned impulse is in units of strength / UnitScale. *)
(* Norms are integer square roots (rounded down): exact for the vectors    *)
(* drawn below, which are axis-aligned or multiples of (3, 4).             *)
(***************************************************************************)
UnitScale == 3 * 4 * 5

Minus(p, q) == <<p[1] - q[1], p[2] - q[2]>>
Times(v, k) == <<v[1] * k, v[2] * k>>
NormSquared(v) == v[1] * v[1] + v[2] * v[2]

\* the largest n with n * n <= x
ISqrt(x) ==
    LET RECURSIVE Between(_, _)
        Between(lo, hi) ==
            IF lo = hi THEN lo
            ELSE LET mid == (lo + hi + 1) \div 2
                 IN IF mid * mid <= x THEN Between(mid, hi) ELSE Between(lo, mid - 1)
    IN Between(0, Min2(x, 46340))

Norm(v) == ISqrt(NormSquared(v))

\* v.normalize(), scaled by UnitScale (the code never calls it on a zero vector)
Normalize(v) == <<(v[1] * UnitScale) \div Norm(v), (v[2] * UnitScale) \div Norm(v)>>

\* v.try_normalize(1e-6).unwrap_or_else(Vector2::zeros), scaled by UnitScale
TryNormalize(v) == IF Norm(v) = 0 THEN Zero2 ELSE Normalize(v)

\* the separation loop: away_vector / distance summed over the neighbours that are
\* closer than separation_distance and not at distance 0 (scaled by UnitScale * UnitScale)
SeparationAccumulator(self_position, neighbors_info, separation_distance) ==
    LET RECURSIVE Sum(_)
        Sum(k) ==
            IF k = 0 THEN Zero2
            ELSE LET distance == Norm(Minus(neighbors_info[k].position, self_position))
                     rest     == Sum(k - 1)
                 IN IF distance < separation_distance /\ distance > 0
                    THEN Plus(rest,
                              Times(Normalize(Minus(self_position, neighbors_info[k].position)),
                                    UnitScale \div distance))
                    ELSE rest
    IN Sum(Len(neighbors_info))

SumOf(neighbors_info, field) ==
    LET RECURSIVE Sum(_)
        Sum(k) == IF k = 0 THEN Zero2 ELSE Plus(Sum(k - 1), neighbors_info[k][field])
    IN Sum(Len(neighbors_info))

\* a plausible slip: the separation force pointing from self towards the neighbours
BoidSteeringTowards(self_position, neighbors_info, separation_distance, cohesion_strength, separation_strength, alignment_strength) ==
    LET count == Len(neighbors_info)
        acc   == SeparationAccumulator(self_position, neighbors_info, separation_distance)
    IN IF count = 0 THEN Zero2
       ELSE IF NormSquared(acc) > 0
            THEN Times(Normalize(acc), -separation_strength)
            ELSE Zero2

\* a plausible slip: no early return, the cohesion target taken as the origin
BoidSteeringNoEarlyReturn(self_position, neighbors_info, separation_distance, cohesion_strength, separation_strength, alignment_strength) ==
    Times(TryNormalize(Minus(Zero2, self_position)), cohesion_strength)

CalculateBoidSteeringImpulse(self_position, neighbors_info, separation_distance, cohesion_strength, separation_strength, alignment_strength) ==
    LET count == Len(neighbors_info)
    IN IF count = 0 THEN Zero2
       ELSE LET cohesion_target == <<SumOf(neighbors_info, "position")[1] \div count,
                                     SumOf(neighbors_info, "position")[2] \div count>>
                cohesion_force  == Times(TryNormalize(Minus(cohesion_target, self_position)),
                                         cohesion_strength)
                alignment_target_velocity ==
                                   <<SumOf(neighbors_info, "velocity")[1] \div count,
                                     SumOf(neighbors_info, "velocity")[2] \div count>>
                alignment_force == Times(TryNormalize(alignment_target_velocity),
                                         alignment_strength)
                acc             == SeparationAccumulator(self_position, neighbors_info,
                                                         separation_distance)
                separation_force == IF NormSquared(acc) > 0
                                    THEN Times(Normalize(acc), separation_strength)
                                    ELSE Zero2
            IN Plus(Plus(cohesion_force, alignment_force), separation_force)

\* the inputs a unit test of the function is drawn from
BoidNeighbors ==
    { [position |-> p, velocity |-> v] :
          p \in {<<0, 0>>, <<30, 40>>, <<36, 48>>, <<0, 40>>, <<-15, -20>>},
          v \in {Zero2, <<30, -40>>} }

BoidNeighborLists ==
    {<<>>} \cup {<<n>> : n \in BoidNeighbors}
           \cup {<<n, m>> : n \in {[position |-> <<0, 40>>, velocity |-> Zero2]},
                            m \in BoidNeighbors}

InitBoids ==
    /\ kinds = <<"Plankton">>
    /\ ids = <<0>>
    /\ attrs = <<PlanktonAttributes>>
    /\ cstate = <<"Wandering">>
    /\ segs = << <<>> >>
    /\ nav = <<>>
    /\ bodies = <<>>
    /\ qp = {}
    /\ info = <<>>
    /\ pc = "api"
    /\ idx = 0
    /\ dt = 0
    /\ clock = {}
    /\ solver = {}
    /\ \E p \in {<<0, 0>>, <<30, 40>>}, ns \in BoidNeighborLists, sd \in {10, 20, 50},
          cs \in {0, 2}, ss \in {0, 1, 3}, as \in {0, 2} :
          test = [name |-> "boids", self_position |-> p, neighbors_info |-> ns,
                  separation_distance |-> sd, cohesion_strength |-> cs,
                  separation_strength |-> ss, alignment_strength |-> as]
    /\ hist = NoHist
    /\ last = [call |-> NoCall, pre |-> attrs]

CallBoidSteering ==
    /\ pc = "api"
    /\ test.name = "boids"
    /\ last' = [call |-> [op |-> "calculate_boid_steering_impulse",
                          result |-> CalculateBoidSteeringImpulse(
                                        test.self_position, test.neighbors_info,
                                        test.separation_distance, test.cohesion_strength,
                                        test.separation_strength, test.alignment_strength)],
                pre |-> attrs]
    /\ attrs' = attrs
    /\ ApiFrame

SpecBoids == InitBoids /\ [][CallBoidSteering]_vars

(***************************************************************************)
(* Waking from Resting: a harness that owns one creature with its          *)
(* metabolism switched off, puts it in Resting with its energy just below, *)
(* at or just above the comfort threshold, hungry or not, and ticks the    *)
(* world.  Checked together with the runs of a creature alone.             *)
(***************************************************************************)
InitWake ==
    \E kind \in {"Plankton", "Snake"}, hungry \in BOOLEAN, off \in {-1, 0, 1} :
        LET a  == SawAttributes(kind, hungry)
            at == IF kind = "Snake" THEN <<Still(<<-500, 267>>)>> ELSE <<Still(<<0, 400>>)>>
        IN InitApp(<<kind>>, <<[a EXCEPT !.energy = Comfort(kind, hungry, a) + off]>>,
                   <<"Resting">>, {2}, {at}, {at}, NoTest, "idle")

SpecWake == (InitSolo \/ InitWake) /\ [][Next]_vars

(***************************************************************************)
(* A run that follows the navigation of one Snake: the snake rests with    *)
(* its metabolism switched off, so that nothing but its navigation fields  *)
(* and the poses the solver leaves it in changes from tick to tick.  The   *)
(* solver holds it in place or shifts it by 10 cm.                         *)
(***************************************************************************)
StuckScenes ==
    {<<Still(<<-500, 267>>)>>, <<Still(<<-490, 267>>)>>}

InitStuck ==
    /\ kinds = <<"Snake">>
    /\ ids = <<0>>
    /\ attrs = <<[SawAttributes("Snake", TRUE) EXCEPT !.energy = (@ * 4) \div 10]>>
    /\ cstate = <<"Resting">>
    /\ segs = <<Handles(kinds, 1)>>
    /\ nav = <<NewNav>>
    /\ bodies = Spawned(kinds, <<Still(<<-500, 267>>)>>)
    /\ qp = {}
    /\ info = <<>>
    /\ pc = "idle"
    /\ idx = 0
    /\ dt = 0
    /\ clock = {1}
    /\ solver = StuckScenes
    /\ test = NoTest
    /\ hist = NoHist
    /\ last = [call |-> NoCall, pre |-> attrs[1]]

SpecStuck == InitStuck /\ [][Next]_vars

(***************************************************************************)
(* A world in which one body handle held by a creature is absent from the  *)
(* rigid body set: every access of the tick goes through                   *)
(* rigid_body_set.get / get_mut (app.rs 187-212 and 260-293, snake.rs      *)
(* 361-415 and 483-522, plankton.rs 499-501), which yield None for it.     *)
(***************************************************************************)
MissingPop == <<"Snake", "Plankton", "Plankton">>

\* the handle that is absent: the snake's head, its second segment, or the primary
\* body of the first plankton
MissingHandles == {Handles(MissingPop, 1)[1], Handles(MissingPop, 1)[2], Handles(MissingPop, 2)[1]}

\* the body set b with handle gone removed
Without(b, gone) == [h \in DOMAIN b \ {gone} |-> b[h]]

\* solver outcomes of the trio, with one more in which the snake is near the edge
\* without being critically near it
MissingScenes ==
    TrioScenes \cup {<<Moving(<<-775, 0>>), Moving(<<0, 720>>), Still(<<0, 400>>)>>}

InitMissing ==
    /\ kinds = MissingPop
    /\ ids = [i \in 1..Len(MissingPop) |-> i - 1]
    /\ attrs = [i \in 1..Len(MissingPop) |->
                  IF MissingPop[i] = "Snake" THEN SnakeAttributes ELSE PlanktonAttributes]
    /\ cstate = [i \in 1..Len(MissingPop) |-> "Wandering"]
    /\ segs = [i \in 1..Len(MissingPop) |-> Handles(MissingPop, i)]
    /\ nav = <<>>
    /\ \E sc \in SpawnScenes(MissingPop), gone \in MissingHandles :
          bodies = Without(Spawned(MissingPop, sc), gone)
    /\ qp = {}
    /\ info = <<>>
    /\ pc = "idle"
    /\ idx = 0
    /\ dt = 0
    /\ clock = {80}
    /\ solver = MissingScenes
    /\ test = NoTest
    /\ hist = NoHist
    /\ last = [call |-> NoCall, pre |-> SnakeAttributes]

SpecMissing == InitMissing /\ [][Next]_vars

(***************************************************************************)
(* DemoCreature (creatures/demo.rs): its segment list, its two handle      *)
(* lists and its own PhysicsWorld, kept in test while the struct is driven *)
(* through set_target_segments, update_state and reset_physics.  A handle  *)
(* is the number the world's arena gave it: an arena never hands out a     *)
(* handle twice, and a new PhysicsWorld starts a new arena.                *)
(***************************************************************************)
DEMO_INITIAL_SEGMENTS == 8
MaxTargetSegments == 10
MaxDemoHandles == 13

\* PhysicsWorld::default
NewPhysicsWorld == [rigid_body_set |-> {}, joint_set |-> <<>>, next_body |-> 0, next_joint |-> 0]

\* rigid_body_set.insert of one body, pushed on rigid_body_handles
DemoInsertBody(d) ==
    [d EXCEPT !.rigid_body_handles = Append(@, d.world.next_body),
              !.world.rigid_body_set = @ \cup {d.world.next_body},
              !.world.next_body = @ + 1]

\* joint_set.insert of a joint between the last two bodies of the handle list, pushed
\* on joint_handles
DemoInsertJoint(d, parent, child) ==
    [d EXCEPT !.joint_handles = Append(@, d.world.next_joint),
              !.world.joint_set =
                  [j \in DOMAIN @ \cup {d.world.next_joint} |->
                      IF j = d.world.next_joint THEN <<parent, child>> ELSE @[j]],
              !.world.next_joint = @ + 1]

\* the body and joint creation loops shared by Default::default and reset_physics: one
\* body per segment, then one joint per consecutive pair of handles
RECURSIVE DemoCreateBodies(_, _)
DemoCreateBodies(d, n) == IF n = 0 THEN d ELSE DemoCreateBodies(DemoInsertBody(d), n - 1)

RECURSIVE DemoCreateJoints(_, _)
DemoCreateJoints(d, i) ==
    IF i > Len(d.rigid_body_handles) THEN d
    ELSE DemoCreateJoints(DemoInsertJoint(d, d.rigid_body_handles[i - 1],
                                          d.rigid_body_handles[i]), i + 1)

\* DemoCreature::reset_physics
DemoResetPhysics(d) ==
    LET cleared == [d EXCEPT !.world = NewPhysicsWorld, !.rigid_body_handles = <<>>,
                             !.joint_handles = <<>>]
    IN DemoCreateJoints(DemoCreateBodies(cleared, d.segments), 2)

\* DemoCreature::default
DemoDefault ==
    DemoResetPhysics([name |-> "demo", segments |-> DEMO_INITIAL_SEGMENTS,
                      target_segments |-> DEMO_INITIAL_SEGMENTS,
                      rigid_body_handles |-> <<>>, joint_handles |-> <<>>,
                      world |-> NewPhysicsWorld])

\* update_state, the loop that adds segments: a segment, its body, and a joint to the
\* handle before it
RECURSIVE DemoGrow(_)
DemoGrow(d) ==
    IF d.segments >= d.target_segments THEN d
    ELSE LET pushed == DemoInsertBody([d EXCEPT !.segments = @ + 1])
             n      == Len(pushed.rigid_body_handles)
         IN DemoGrow(IF n >= 2
                     THEN DemoInsertJoint(pushed, pushed.rigid_body_handles[n - 1],
                                          pushed.rigid_body_handles[n])
                     ELSE pushed)

\* RigidBodySet::remove(handle, .., joint_set, .., true): the body goes, and with it
\* every joint attached to it; ImpulseJointSet::remove of a joint that is gone does
\* nothing
RemoveBody(w, h) ==
    [w EXCEPT !.rigid_body_set = @ \ {h},
              !.joint_set = [j \in {k \in DOMAIN @ : @[k][1] # h /\ @[k][2] # h} |-> @[j]]]

RemoveJoint(w, j) == [w EXCEPT !.joint_set = [k \in DOMAIN @ \ {j} |-> @[k]]]

Front(s) == SubSeq(s, 1, Len(s) - 1)

\* a plausible slip: the handle is popped and the body left in the world
DemoShrinkKeepsBody(d) ==
    [d EXCEPT !.segments = d.target_segments,
              !.rigid_body_handles = SubSeq(@, 1, d.target_segments),
              !.joint_handles = SubSeq(@, 1, d.target_segments - 1)]

\* update_state, the loop that drops segments: the last segment, the last body handle
\* with its body, the last joint handle with its joint
RECURSIVE DemoShrink(_)
DemoShrink(d) ==
    IF d.segments <= d.target_segments THEN d
    ELSE LET popped == [d EXCEPT !.segments = @ - 1]
             bodied == IF Len(popped.rigid_body_handles) > 0
                       THEN [popped EXCEPT
                               !.rigid_body_handles = Front(@),
                               !.world = RemoveBody(@, popped.rigid_body_handles[
                                                          Len(popped.rigid_body_handles)])]
                       ELSE popped
             jointed == IF Len(bodied.joint_handles) > 0
                        THEN [bodied EXCEPT
                                !.joint_handles = Front(@),
                                !.world = RemoveJoint(@, bodied.joint_handles[
                                                            Len(bodied.joint_handles)])]
                        ELSE bodied
         IN DemoShrink(jointed)

\* Creature::update_state of DemoCreature: the physics step moves bodies and leaves
\* the lists alone; then the segment count is brought to target_segments
DemoUpdateState(d) == DemoShrink(DemoGrow(d))

InitDemo ==
    /\ kinds = <<"demo">>
    /\ ids = <<0>>
    /\ attrs = <<PlanktonAttributes>>
    /\ cstate = <<"Idle">>
    /\ segs = << <<>> >>
    /\ nav = <<>>
    /\ bodies = <<>>
    /\ qp = {}
    /\ info = <<>>
    /\ pc = "api"
    /\ idx = 0
    /\ dt = 0
    /\ clock = {}
    /\ solver = {}
    /\ test = DemoDefault
    /\ hist = NoHist
    /\ last = [call |-> NoCall, pre |-> attrs]

DemoFrame == UNCHANGED <<kinds, ids, attrs, cstate, segs, nav, bodies, qp, info, pc, idx, dt, clock, solver, hist>>

CallSetTargetSegments ==
    /\ pc = "api" /\ test.name = "demo"
    /\ \E n \in 1..MaxTargetSegments :
          /\ test' = [test EXCEPT !.target_segments = n]
          /\ last' = [call |-> [op |-> "set_target_segments", count |-> n], pre |-> last.pre]
    /\ DemoFrame

CallUpdateState ==
    /\ pc = "api" /\ test.name = "demo"
    /\ test.world.next_body + test.target_segments <= MaxDemoHandles + test.segments
    /\ test' = DemoUpdateState(test)
    /\ last' = [call |-> [op |-> "update_state"], pre |-> last.pre]
    /\ DemoFrame

CallResetPhysics ==
    /\ pc = "api" /\ test.name = "demo"
    /\ test' = DemoResetPhysics(test)
    /\ last' = [call |-> [op |-> "reset_physics"], pre |-> last.pre]
    /\ DemoFrame

NextDemo == CallSetTargetSegments \/ CallUpdateState \/ CallResetPhysics

SpecDemo == InitDemo /\ [][NextDemo]_vars

(***************************************************************************)
(* The frame loop: eframe calls update, and with it tick_simulation, again *)
(* and again (app.rs 308-316, request_repaint at 416), so a tick that has  *)
(* begun is carried through and the next one begins.                       *)
(***************************************************************************)
SpecLive == InitSolo /\ [][Next]_vars /\ WF_vars(Next)

(***************************************************************************)
(* The tick driven with a query pipeline that is kept up to date: the      *)
(* solver step is handed Some(&mut query_pipeline), as PhysicsWorld::step  *)
(* (creature.rs 134-153) and the update/step loop of the Snake test        *)
(* (snake.rs 1019-1047) do, so that after a step the pipeline has indexed  *)
(* the collider of every body.  Plankton::update_state_and_behavior takes  *)
(* the pipeline as an argument; SoftiesApp hands it one that is never      *)
(* updated.                                                                *)
(***************************************************************************)
PhysicsStepWithQueries ==
    /\ pc = "physics"
    /\ \E sc \in solver :
          bodies' = [h \in DOMAIN bodies |->
                       LET i == OwnerOf(h)
                       IN IF i = 0 THEN bodies[h]
                          ELSE [pos |-> Plus(sc[i].at,
                                            IF sc[i].folded
                                            THEN FoldedOffset(kinds[i], SegIndex(i, h) - 1)
                                            ELSE SegmentOffset(kinds[i], SegIndex(i, h) - 1)),
                                vel |-> sc[i].vel, angvel |-> sc[i].angvel]]
    /\ qp' = DOMAIN bodies
    /\ hist' = [Logged("physics") EXCEPT !.beh = <<>>, !.bodies0 = <<>>, !.attrs0 = <<>>,
                                         !.cstate0 = <<>>, !.began = <<>>,
                                         !.forces = <<>>, !.stepped = bodies']
    /\ pc' = PhaseAfter(pc)
    /\ UNCHANGED <<kinds, ids, attrs, cstate, segs, nav, info, idx, dt, clock, solver, test, last>>

NextSense ==
    \/ TickBegin
    \/ BuildSnapshot
    \/ Behave
    \/ ApplyCustomForces
    \/ PhysicsStepWithQueries
    \/ Failsafe
    \/ TickReturn

SpecSense == Init /\ [][NextSense]_vars

(***************************************************************************)
(* Properties.                                                             *)
(***************************************************************************)
Rec(k) == hist.beh[k]

Origin == [pos |-> Zero2, vel |-> Zero2, angvel |-> 0]

WithinTolerance(p) ==
    /\ Abs(p[1]) <= WORLD_WIDTH \div 2 + BOUNDS_PADDING
    /\ Abs(p[2]) <= WORLD_HEIGHT \div 2 + BOUNDS_PADDING

\* the phases of one tick_simulation call, in the order the claim gives them
TickOrder ==
    <<"passive", "snapshot">> \o [k \in 1..N |-> "behave"] \o <<"forces", "physics", "failsafe">>

\* C1: in every reachable state, of a bare struct under any sequence of
\* update_passive_stats, consume_energy and gain_satiety calls and of a world under any
\* number of ticks, every creature has 0 <= energy <= max_energy and
\* 0 <= satiety <= max_satiety.
C1_EnergyAndSatietyWithinBounds ==
    \A i \in 1..N :
        /\ 0 <= attrs[i].energy /\ attrs[i].energy <= attrs[i].max_energy
        /\ 0 <= attrs[i].satiety /\ attrs[i].satiety <= attrs[i].max_satiety

\* a plankton whose light-zone gain would have passed max_energy sits exactly at
\* max_energy, its satiety drained to exactly 0
C1_Witness ==
    \E k \in 1..Len(hist.beh) :
        /\ kinds[Rec(k).who] = "Plankton"
        /\ Rec(k).to = "SeekingFood"
        /\ InLightZone(Rec(k).self_position[2])
        /\ Rec(k).tattr.energy + Rec(k).tattr.energy_recovery_rate * dt
             > Rec(k).tattr.max_energy
        /\ attrs[Rec(k).who].energy = attrs[Rec(k).who].max_energy
        /\ attrs[Rec(k).who].satiety = 0

\* C2: whenever update_state_and_behavior evaluates the transition of a creature that
\* is tired (after this tick's update_passive_stats), Snake or Plankton and whatever
\* its previous state, the state it chooses and is left in is Resting.
C2_TiredMeansResting ==
    \A k \in 1..Len(hist.beh) :
        IsTired(Rec(k).tattr) =>
            Rec(k).to = "Resting" /\ cstate[Rec(k).who] = "Resting"

\* in one behaviour pass a tired snake and a tired plankton, neither of them resting
\* before, were both sent to Resting
C2_Witness ==
    \E k, m \in 1..Len(hist.beh) :
        /\ kinds[Rec(k).who] = "Snake" /\ kinds[Rec(m).who] = "Plankton"
        /\ IsTired(Rec(k).tattr) /\ IsTired(Rec(m).tattr)
        /\ Rec(k).from # "Resting" /\ Rec(m).from # "Resting"
        /\ Rec(k).to = "Resting" /\ Rec(m).to = "Resting"

\* C3, as amended: the test's plankton (max_energy 20, energy 4.4, dt 1/60) is seen
\* Resting before the test's loop runs out of its 2000 ticks, provided the solver never
\* leaves the plankton inside the light-zone band.
C3_RestsOutsideTheLight ==
    (test.name = "rests" /\ pc = "end"
       /\ \A sc \in solver : ~InLightZone(sc[1].at[2]))
    => test.resting_observed /\ test.i <= Iterations

\* the loop has ended with a plankton resting that spent time SeekingFood outside the band
C3_Witness ==
    /\ test.name = "rests" /\ pc = "end"
    /\ \A sc \in solver : ~InLightZone(sc[1].at[2])
    /\ test.resting_observed
    /\ test.i > 240

\* C3, as stated: for every initial position inside the world, the test's plankton is
\* seen Resting within 2000 ticks.
C3_AsStated ==
    (test.name = "rests" /\ pc = "end") => test.resting_observed

\* C4: under an energy sawtooth laid around the tired threshold or the plankton's
\* critical threshold, with its upper value below the comfort threshold, the state
\* recorded after each tick never returns to the state left one tick earlier, and the
\* number of state changes never exceeds two however long the sawtooth runs.
C4_NoChatter ==
    test.name = "saw" =>
        /\ test.changes <= 2
        /\ Len(test.trail) = 3 =>
              ~(test.trail[1] = test.trail[3] /\ test.trail[1] # test.trail[2])

\* the sawtooth has run its length, the creature went to Resting and has stayed there
\* over ticks in which it was not tired
C4_Witness ==
    /\ test.name = "saw" /\ pc = "end"
    /\ test.changes >= 1
    /\ test.trail = <<"Resting", "Resting", "Resting">>
    /\ ~IsTired(attrs[1])
    /\ test.hi - test.lo > 3

\* C5: the phases of a tick_simulation call run in the fixed order passive stats,
\* snapshot, behaviour of each creature in list order, custom forces, one solver step,
\* failsafe; every transition is computed with every creature's passive stats updated
\* and the snapshot complete.
C5_PhasesInOrder ==
    /\ Len(hist.log) <= Len(TickOrder)
    /\ \A k \in 1..Len(hist.log) : hist.log[k] = TickOrder[k]
    /\ pc = "done" => hist.log = TickOrder
    /\ \A k \in 1..Len(hist.beh) : Rec(k).who = k /\ Len(info) = N

\* a tick of three creatures has run through all its phases
C5_Witness ==
    /\ pc = "done"
    /\ N = 3
    /\ hist.log = TickOrder
    /\ Cardinality({k \in 1..Len(hist.log) : hist.log[k] = "physics"}) = 1

\* C6: what a creature decides in the behaviour pass is what it would decide on the world
\* as it stood when the snapshot was built: its own bodies, attributes and state are
\* untouched by the creatures processed before it, the state it chooses is a function
\* of these, every neighbour it senses is an entry of the snapshot, and the snapshot
\* still holds the positions and velocities of the start of the tick.
C6_DecidedFromSnapshot ==
    \A k \in 1..Len(hist.beh) :
        LET i   == Rec(k).who
            own == segs[i][1]
        IN /\ \A j \in 1..Len(segs[i]) : Rec(k).before[segs[i][j]] = hist.bodies0[segs[i][j]]
           /\ Rec(k).tattr = hist.attrs0[i]
           /\ Rec(k).from = hist.cstate0[i]
           /\ Rec(k).to = IF kinds[i] = "Snake"
                          THEN SnakeNextState(hist.attrs0[i], hist.cstate0[i])
                          ELSE PlanktonNextState(hist.attrs0[i], hist.cstate0[i],
                                                 hist.bodies0[own].pos[2])
           /\ \A h \in DOMAIN Rec(k).nbrs :
                 \E o \in 1..Len(info) :
                     /\ o # i
                     /\ Rec(k).nbrs[h].position = info[o].position
                     /\ Rec(k).nbrs[h].velocity = info[o].velocity
           /\ \A o \in 1..Len(info) :
                 /\ info[o].position = hist.bodies0[segs[o][1]].pos
                 /\ info[o].velocity = hist.bodies0[segs[o][1]].vel

\* the third creature decided after the first two had both changed the physics world
C6_Witness ==
    /\ Len(hist.beh) = 3
    /\ Rec(2).before # hist.bodies0
    /\ Rec(3).before # Rec(2).before
    /\ Rec(3).from # Rec(3).to

\* C7: when the failsafe pass has run, every present segment of every creature has
\* |x| <= world_half_width + 1 and |y| <= world_half_height + 1, and a creature that
\* had a segment outside that tolerance after the solver step has every segment at the
\* origin with zero linear and angular velocity (positions being finite numbers).
C7_FailsafeContains ==
    pc = "done" =>
        \A i \in 1..N :
            /\ \A j \in 1..Len(segs[i]) :
                  Present(segs[i][j]) => WithinTolerance(bodies[segs[i][j]].pos)
            /\ (\E j \in 1..Len(segs[i]) : ~WithinTolerance(hist.stepped[segs[i][j]].pos))
                  => \A j \in 1..Len(segs[i]) : bodies[segs[i][j]] = Origin

\* a creature left the solver step moving, with one segment inside the tolerance and
\* one outside it, and the failsafe has put all of it at the origin
C7_Witness ==
    /\ pc = "done"
    /\ \E i \in 1..N :
          /\ \E j \in 1..Len(segs[i]) : ~WithinTolerance(hist.stepped[segs[i][j]].pos)
          /\ \E j \in 1..Len(segs[i]) :
                /\ WithinTolerance(hist.stepped[segs[i][j]].pos)
                /\ hist.stepped[segs[i][j]] # Origin
          /\ \A j \in 1..Len(segs[i]) : bodies[segs[i][j]] = Origin

\* C8, as stated: the neighbour list a plankton builds in a tick holds every other
\* creature, of either species, whose snapshot position lies within the perception
\* radius of the plankton's position, and holds neither the plankton itself nor a wall.
C8_NeighboursComplete ==
    \A k \in 1..Len(hist.beh) :
        kinds[Rec(k).who] = "Plankton" =>
            LET r == PLANKTON_RADIUS * 10
            IN /\ \A o \in 1..Len(info) :
                     (o # Rec(k).who
                        /\ DistSq(info[o].position, Rec(k).self_position) <= r * r)
                     => \E h \in DOMAIN Rec(k).nbrs :
                            Rec(k).nbrs[h].position = info[o].position
               /\ \A h \in DOMAIN Rec(k).nbrs :
                     ColliderUserData(h) \notin {WallTag, ids[Rec(k).who]}

C10_PassiveStatsFormula ==
    last.call.op = "update_passive_stats" =>
        LET p        == last.pre
            a        == attrs[1]
            d        == last.call.dt
            drained2 == Max2(2 * p.energy - p.metabolic_rate * d, 0)
        IN /\ a.satiety = Max2(p.satiety - p.metabolic_rate * d, 0)
           /\ 2 * a.energy = IF last.call.is_resting
                             THEN Min2(drained2 + 2 * p.energy_recovery_rate * d,
                                       2 * p.max_energy)
                             ELSE drained2
           /\ a = [p EXCEPT !.energy = a.energy, !.satiety = a.satiety]

\* a resting call whose drain was positive and whose recovery was cut at max_energy
C10_Witness ==
    /\ last.call.op = "update_passive_stats"
    /\ last.call.is_resting
    /\ last.pre.metabolic_rate * last.call.dt > 0
    /\ 2 * last.pre.energy - last.pre.metabolic_rate * last.call.dt
         + 2 * last.pre.energy_recovery_rate * last.call.dt > 2 * last.pre.max_energy
    /\ attrs[1].energy = attrs[1].max_energy

\* what the claim says can_eat(self, other) returns
EdibleAsClaimed(self, other) ==
    /\ self.diet_type \in {"Carnivore", "Omnivore"}
    /\ ~(2 * other.size > 3 * self.size)
    /\ self.prey_tags \cap other.self_tags # {}

\* C11: can_eat(other) is false for a Herbivore; for a Carnivore or Omnivore it is
\* false when other.size > 1.5 * self.size and otherwise true exactly when a prey tag
\* of self is among other's self tags; a.can_be_eaten_by(b) equals b.can_eat(a); neither
\* call changes either struct.
C11_CanEatRule ==
    /\ last.call.op = "can_eat" =>
          /\ last.call.result =
                EdibleAsClaimed(attrs[last.call.self], attrs[last.call.other])
          /\ attrs = last.pre
    /\ last.call.op = "can_be_eaten_by" =>
          /\ last.call.result =
                EdibleAsClaimed(attrs[last.call.other], attrs[last.call.self])
          /\ last.call.result = CanEat(attrs[last.call.other], attrs[last.call.self])
          /\ attrs = last.pre

\* a carnivore asked about a creature of exactly 1.5 times its size that carries one of
\* its prey tags: it can eat it
C11_Witness ==
    /\ last.call.op = "can_eat"
    /\ attrs[last.call.self].diet_type = "Carnivore"
    /\ 2 * attrs[last.call.other].size = 3 * attrs[last.call.self].size
    /\ last.call.result

\* C12: calculate_boid_steering_impulse returns the zero vector whenever the neighbour
\* list is empty, whatever the self position, the separation distance and the three
\* strengths.
C12_NoNeighboursNoImpulse ==
    (last.call.op = "calculate_boid_steering_impulse" /\ Len(test.neighbors_info) = 0)
    => last.call.result = Zero2

\* the function was called with no neighbours, away from the origin, with every
\* strength positive
C12_Witness ==
    /\ last.call.op = "calculate_boid_steering_impulse"
    /\ Len(test.neighbors_info) = 0
    /\ test.self_position # Zero2
    /\ test.cohesion_strength > 0 /\ test.separation_strength > 0
    /\ test.alignment_strength > 0
    /\ last.call.result = Zero2

\* C13: with cohesion and alignment strengths 0, separation strength s > 0 and one
\* neighbour at distance d, the result has magnitude s and points from the neighbour
\* towards self when 0 < d < separation_distance, and is the zero vector when
\* d >= separation_distance or d = 0.
C13_SeparationOnly ==
    (/\ last.call.op = "calculate_boid_steering_impulse"
     /\ Len(test.neighbors_info) = 1
     /\ test.cohesion_strength = 0 /\ test.alignment_strength = 0
     /\ test.separation_strength > 0)
    => LET away == Minus(test.self_position, test.neighbors_info[1].position)
           r    == last.call.result
           s    == test.separation_strength
       IN IF 0 < NormSquared(away)
             /\ NormSquared(away) < test.separation_distance * test.separation_distance
          THEN /\ NormSquared(r) = (s * UnitScale) * (s * UnitScale)
               /\ r[1] * away[2] = r[2] * away[1]
               /\ r[1] * away[1] + r[2] * away[2] > 0
          ELSE r = Zero2

\* one neighbour closer than separation_distance along a slanted line: the result is
\* the unit vector away from it, times s
C13_Witness ==
    /\ last.call.op = "calculate_boid_steering_impulse"
    /\ Len(test.neighbors_info) = 1
    /\ test.cohesion_strength = 0 /\ test.alignment_strength = 0
    /\ test.separation_strength = 3
    /\ test.self_position = <<30, 40>>
    /\ test.neighbors_info[1].position = <<36, 48>>
    /\ test.separation_distance = 20
    /\ last.call.result = <<-108, -144>>

\* the comfort threshold of C14 reached by the attributes a of a creature of kind
ComfortReached(kind, a) ==
    IF kind = "Plankton" THEN a.energy * 100 >= a.max_energy * 65
    ELSE IF IsHungry(a) THEN a.energy * 10 > a.max_energy * 5
    ELSE a.energy * 10 > a.max_energy * 8

\* C14: a creature whose transition is evaluated while it is Resting and not tired
\* stays Resting when its energy is below its comfort threshold and moves to Wandering
\* when the threshold is reached (Plankton: energy >= 0.65 max; Snake: energy > 0.5 max
\* if hungry, > 0.8 max if not); Resting is never left for a state other than Wandering.
C14_LeavesRestingAtComfort ==
    \A k \in 1..Len(hist.beh) :
        Rec(k).from = "Resting" =>
            /\ Rec(k).to \in {"Resting", "Wandering"}
            /\ cstate[Rec(k).who] = Rec(k).to
            /\ ~IsTired(Rec(k).tattr) =>
                  (Rec(k).to = "Wandering"
                      <=> ComfortReached(kinds[Rec(k).who], Rec(k).tattr))

\* a resting snake that is not hungry left for Wandering one tenth above 0.8 max_energy
C14_Witness ==
    \E k \in 1..Len(hist.beh) :
        /\ kinds[Rec(k).who] = "Snake"
        /\ Rec(k).from = "Resting" /\ Rec(k).to = "Wandering"
        /\ ~IsHungry(Rec(k).tattr)
        /\ Rec(k).tattr.energy = (Rec(k).tattr.max_energy * 8) \div 10 + 1

\* the critical threshold of C15 (0.21 max_energy) undercut by the attributes a
CriticallyLow(a) == a.energy * 100 < a.max_energy * 21

\* C15, as amended: a Plankton whose transition is evaluated while it is not tired and
\* not Resting, with energy below 0.21 max_energy, is in SeekingFood afterwards; a Snake
\* that is not tired and not Resting is in Wandering afterwards whatever its energy.
C15_CriticalMeansSeekingFood ==
    \A k \in 1..Len(hist.beh) :
        (Rec(k).from # "Resting" /\ ~IsTired(Rec(k).tattr)) =>
            /\ cstate[Rec(k).who] = Rec(k).to
            /\ IF kinds[Rec(k).who] = "Plankton"
               THEN CriticallyLow(Rec(k).tattr) => Rec(k).to = "SeekingFood"
               ELSE Rec(k).to = "Wandering"

\* a plankton in Fleeing, not tired and below the critical threshold, was sent to
\* SeekingFood
C15_Witness ==
    \E k \in 1..Len(hist.beh) :
        /\ kinds[Rec(k).who] = "Plankton"
        /\ Rec(k).from = "Fleeing"
        /\ ~IsTired(Rec(k).tattr) /\ CriticallyLow(Rec(k).tattr)
        /\ Rec(k).to = "SeekingFood"

\* C15, as stated: a creature of either species that is not tired and not Resting, with
\* energy below the critical threshold (taken as 0.21 max_energy for the Snake too), is
\* in SeekingFood after the transition.
C15_AsStated ==
    \A k \in 1..Len(hist.beh) :
        (Rec(k).from # "Resting" /\ ~IsTired(Rec(k).tattr) /\ CriticallyLow(Rec(k).tattr))
            => Rec(k).to = "SeekingFood"

\* the comfort threshold of a Plankton (0.65 max_energy) reached by the attributes a
Comfortable(a) == a.energy * 100 >= a.max_energy * 65

\* C16, as stated: a Plankton in SeekingFood moves to Wandering only if its energy is at
\* least 0.65 max_energy and its primary position is inside the light-zone band
\* (0.1 world_height <= y <= 0.45 world_height); if either fails and it is not tired it
\* stays in SeekingFood.
C16_AsStated ==
    \A k \in 1..Len(hist.beh) :
        (kinds[Rec(k).who] = "Plankton" /\ Rec(k).from = "SeekingFood"
           /\ ~IsTired(Rec(k).tattr)) =>
            (Rec(k).to = "Wandering"
                <=> (Comfortable(Rec(k).tattr) /\ InLightZone(Rec(k).self_position[2])))

\* C16, as amended: a Plankton in SeekingFood that is not tired moves to Wandering
\* exactly when its energy is at least 0.65 max_energy and its primary position is at
\* or above the lower edge of the light-zone band (y >= 0.1 world_height), the upper
\* edge not being tested; otherwise it stays in SeekingFood.
C16_LeavesSeekingFoodAboveLowerEdge ==
    \A k \in 1..Len(hist.beh) :
        (kinds[Rec(k).who] = "Plankton" /\ Rec(k).from = "SeekingFood"
           /\ ~IsTired(Rec(k).tattr)) =>
            /\ Rec(k).to \in {"SeekingFood", "Wandering"}
            /\ cstate[Rec(k).who] = Rec(k).to
            /\ Rec(k).to = "Wandering"
                  <=> (Comfortable(Rec(k).tattr)
                         /\ Rec(k).self_position[2] * 100 >= WORLD_HEIGHT * 10)

\* a plankton in SeekingFood with comfortable energy, above the upper edge of the band
\* and inside the world, was sent to Wandering
C16_Witness ==
    \E k \in 1..Len(hist.beh) :
        /\ kinds[Rec(k).who] = "Plankton"
        /\ Rec(k).from = "SeekingFood" /\ Rec(k).to = "Wandering"
        /\ Comfortable(Rec(k).tattr)
        /\ ~InLightZone(Rec(k).self_position[2])
        /\ Rec(k).self_position[2] < WORLD_HEIGHT \div 2

\* C17: starting from Wandering, after any number of ticks no Snake and no Plankton is
\* in Idle or Fleeing: every creature's state is Wandering, Resting or SeekingFood.
C17_NeverIdleNorFleeing ==
    \A i \in 1..N : cstate[i] \in {"Wandering", "Resting", "SeekingFood"}

\* between two ticks of the shared world the snake rests, one plankton seeks food and
\* the other wanders
C17_Witness ==
    /\ pc = "idle"
    /\ N = 3
    /\ cstate[1] = "Resting"
    /\ \E i, j \in 2..3 : cstate[i] = "SeekingFood" /\ cstate[j] = "Wandering"

\* the light-zone gain of C18 is due for behaviour record r
GainDue(r) ==
    /\ r.to = "SeekingFood"
    /\ InLightZone(r.self_position[2])
    /\ r.tattr.energy * 10 < r.tattr.max_energy * 9

\* C18, as stated: a Plankton's energy is higher after its behaviour of a tick than
\* when the tick began only if, after the transition, it is in SeekingFood inside the
\* light-zone band with energy below 0.9 max_energy.
C18_AsStated ==
    \A k \in 1..Len(hist.beh) :
        (kinds[Rec(k).who] = "Plankton"
           /\ attrs[Rec(k).who].energy > hist.began[Rec(k).who].energy)
            => GainDue(Rec(k))

\* C18, as amended: a Plankton's energy is higher after its behaviour of a tick than
\* when the tick began only if it began the tick in Resting (the recovery of
\* update_passive_stats) or, after the transition, it is in SeekingFood inside the
\* light-zone band with energy below 0.9 max_energy.
C18_GainsOnlyRestingOrInLight ==
    \A k \in 1..Len(hist.beh) :
        (kinds[Rec(k).who] = "Plankton"
           /\ attrs[Rec(k).who].energy > hist.began[Rec(k).who].energy)
            => (Rec(k).from = "Resting" \/ GainDue(Rec(k)))

\* a plankton that began the tick in Resting, and is not in SeekingFood after the
\* transition, holds more energy than when the tick began
C18_Witness ==
    \E k \in 1..Len(hist.beh) :
        /\ kinds[Rec(k).who] = "Plankton"
        /\ Rec(k).from = "Resting" /\ Rec(k).to # "SeekingFood"
        /\ ~GainDue(Rec(k))
        /\ attrs[Rec(k).who].energy > hist.began[Rec(k).who].energy

\* what the behaviour call of record r did belongs to the state r.to it chose
ActuationOfChosenState(r) ==
    LET i    == r.who
        head == IF Len(segs[i]) > 0 THEN segs[i][1] ELSE InvalidHandle
    IN /\ cstate[i] = r.to
       /\ IF kinds[i] = "Plankton"
          THEN /\ attrs[i] = PlanktonGain(r.tattr, r.to, r.self_position[2], dt)
               /\ Present(head) =>
                     IF r.to = "Wandering"
                     THEN \E kick \in Kicks :
                             bodies[head].vel = Plus(r.before[head].vel, kick)
                     ELSE bodies[head] = r.before[head]
          ELSE /\ attrs[i] = IF r.to # "Resting" /\ Present(head)
                             THEN ConsumeEnergy(r.tattr, WiggleCost(r.tattr, r.to, dt))
                             ELSE r.tattr
               /\ \E ph \in WigglePhases : r.motors = SnakeMotors(i, r.to, ph)
       /\ (hist.forces # <<>> /\ kinds[i] = "Plankton") =>
             \A j \in DOMAIN hist.forces[i] :
                 hist.forces[i][j] = NetGravityAccelScale(r.to, bodies[segs[i][j]].pos[2])

\* C19: each creature holds one CreatureState; within a tick the state of a creature is
\* assigned only by its own behaviour call, which runs once; and the actuation of the
\* tick (motor commands, steering impulse, actuation energy cost or light-zone gain,
\* the state-dependent factor of apply_custom_forces) is that of the state chosen in
\* the same tick.
C19_ActuationFollowsNewState ==
    /\ [](/\ \A i \in 1..N : cstate[i] \in CreatureStates
          /\ \A k \in 1..Len(hist.beh) : Rec(k).who = k /\ ActuationOfChosenState(Rec(k)))
    /\ [][cstate' # cstate =>
             /\ pc = "behave" /\ idx' = idx + 1 /\ Len(hist'.beh) = idx
             /\ \A i \in 1..N : i # idx => cstate'[i] = cstate[i]]_vars

\* in one tick the snake went from Wandering to Resting and a plankton from Wandering to
\* SeekingFood, and the custom forces have been applied
C19_Witness ==
    /\ pc = "physics"
    /\ hist.forces # <<>>
    /\ \E k, m \in 1..Len(hist.beh) :
          /\ kinds[k] = "Snake" /\ Rec(k).from = "Wandering" /\ Rec(k).to = "Resting"
          /\ kinds[m] = "Plankton" /\ Rec(m).from = "Wandering"
          /\ Rec(m).to = "SeekingFood"
          /\ hist.forces[m][1] # NetGravityAccelScale(Rec(m).from, bodies[segs[m][1]].pos[2])

\* C20: in a tick in which a Snake's state after the transition is Resting, every joint
\* motor is commanded target velocity 0 with a non-zero force factor, no wiggle is
\* applied (the bodies are as check_and_correct_segments left them) and no actuation
\* energy is consumed: the energy differs from the one the tick began with by
\* update_passive_stats alone.
C20_RestingSnakeHolds ==
    \A k \in 1..Len(hist.beh) :
        (kinds[Rec(k).who] = "Snake" /\ Rec(k).to = "Resting") =>
            LET i == Rec(k).who
            IN /\ DOMAIN Rec(k).motors = 1..(Len(segs[i]) - 1)
               /\ \A j \in DOMAIN Rec(k).motors :
                     Rec(k).motors[j].velocity = 0 /\ Rec(k).motors[j].factor # 0
               /\ \E base \in SafeBases :
                     \A j \in 1..Len(segs[i]) :
                         bodies[segs[i][j]]
                           = CheckAndCorrectSegments(Rec(k).before, i, base)[segs[i][j]]
               /\ attrs[i] = Rec(k).tattr
               /\ attrs[i] = UpdatePassiveStats(hist.began[i], dt, Rec(k).from = "Resting")

\* a snake with two joints that was moving stays in Resting for another tick, its motors
\* held at 0, its energy raised by the recovery of update_passive_stats
C20_Witness ==
    \E k \in 1..Len(hist.beh) :
        /\ kinds[Rec(k).who] = "Snake"
        /\ Rec(k).from = "Resting" /\ Rec(k).to = "Resting"
        /\ Len(Rec(k).motors) = 2
        /\ Rec(k).before[segs[Rec(k).who][1]].vel # Zero2
        /\ attrs[Rec(k).who].energy > hist.began[Rec(k).who].energy

\* C21: whenever check_and_correct_segments finds a segment of a Snake critically close
\* to the boundary, the snake is reset, and after the reset every segment of the snake
\* has zero linear and angular velocity (the head apart, which the wiggle of the same
\* call steers afterwards) and lies where is_within_bounds holds.
C21_ResetIsSafe ==
    \A k \in 1..Len(hist.beh) :
        LET i == Rec(k).who
        IN (kinds[i] = "Snake"
              /\ \E j \in 1..Len(segs[i]) : SnakeCritical(Rec(k).before[segs[i][j]].pos))
            => \A j \in 1..Len(segs[i]) :
                  /\ IsWithinBounds(bodies[segs[i][j]].pos)
                  /\ j > 1 => (bodies[segs[i][j]].vel = Zero2
                                 /\ bodies[segs[i][j]].angvel = 0)

\* C22: in every tick, for every Snake, the segments that check_safety would report
\* (two or more indices apart and closer than 2.5 * segment_radius) have zero linear
\* and angular velocity after the tick's safety handling, and each interior one has been
\* moved a tenth of the way to the midpoint of its two neighbours.
C22_SelfCollisionCorrected ==
    \A k \in 1..Len(hist.beh) :
        LET i == Rec(k).who
            b == Rec(k).before
        IN kinds[i] = "Snake" =>
              \A j \in ProblematicSegments(b, i) :
                  j > 1 =>
                    /\ bodies[segs[i][j]].vel = Zero2
                    /\ bodies[segs[i][j]].angvel = 0
                    /\ j < Len(segs[i]) =>
                          Times(bodies[segs[i][j]].pos, 20)
                            = Plus(Times(b[segs[i][j]].pos, 18),
                                   Plus(b[segs[i][j - 1]].pos, b[segs[i][j + 1]].pos))

\* C23: when a Snake's stuck_timer has passed 1.0 s, the next behaviour update draws a
\* new wander target inside [-world_height/2, world_height/2) on both axes and restarts
\* stuck_timer and target_update_timer from 0; an update in which the head is 0.1 m or
\* more from last_position leaves stuck_timer at 0; and stuck_timer never passes
\* 63 * 0.016 s, so a snake that stays stuck is given a new target after at most 63
\* updates.
C23_StuckRecovery ==
    /\ \A i \in DOMAIN nav : nav[i].stuck_timer <= 63 * 16
    /\ \A k \in 1..Len(hist.beh) :
          LET i     == Rec(k).who
              n0    == Rec(k).nav0
              n1    == nav[i]
              moved == DistSq(bodies[segs[i][1]].pos, n0.last_position) >= 10 * 10
          IN i \in DOMAIN nav =>
                /\ n0.stuck_timer > 1000 =>
                      /\ n1.retargeted
                      /\ n1.target_position # NoTarget
                      /\ \A c \in 1..2 :
                            /\ -(WORLD_HEIGHT \div 2) <= n1.target_position[c]
                            /\ n1.target_position[c] < WORLD_HEIGHT \div 2
                      /\ n1.stuck_timer = IF moved THEN 0 ELSE 16
                      /\ n1.target_update_timer = dt
                /\ moved => n1.stuck_timer = 0

\* a snake that did not move for 63 updates was given a new target while its
\* target_update_timer was still below its three seconds, and is counted stuck afresh
C23_Witness ==
    \E k \in 1..Len(hist.beh) :
        /\ Rec(k).who \in DOMAIN nav
        /\ Rec(k).nav0.stuck_timer = 63 * 16
        /\ Rec(k).nav0.target_update_timer * 10 <= 30 * NavUnitsPerSecond
        /\ Rec(k).nav0.target_position # NoTarget
        /\ nav[Rec(k).who].retargeted
        /\ nav[Rec(k).who].stuck_timer = 16

\* the handles of creature i that are absent from the rigid body set
Gone(i) == {j \in 1..Len(segs[i]) : ~Present(segs[i][j])}

\* the bodies as the behaviour of the k-th creature left them
After(k) == IF k < Len(hist.beh) THEN Rec(k + 1).before ELSE bodies

\* C24: with one body handle of a creature absent from the physics world, every phase of
\* the tick still runs and the tick returns; the snapshot holds the zero vector as position
\* and velocity of a creature whose primary body is absent; the Snake's boundary damping
\* and reset, the custom forces and the failsafe check and reset act on every present
\* segment of the creature and never on the absent one; every creature still decides
\* its state by its transition rule.
C24_MissingBodyTolerated ==
    /\ ENABLED Next
    /\ \A k \in 1..Len(hist.log) : k <= Len(TickOrder) /\ hist.log[k] = TickOrder[k]
    /\ pc = "done" => hist.log = TickOrder
    /\ pc = "forces" => Len(hist.beh) = N
    /\ hist.bodies0 # <<>> =>
          /\ DOMAIN bodies = DOMAIN hist.bodies0
          /\ \A o \in 1..Len(info) :
                /\ info[o].position =
                      IF Present(segs[o][1]) THEN hist.bodies0[segs[o][1]].pos ELSE Zero2
                /\ info[o].velocity =
                      IF Present(segs[o][1]) THEN hist.bodies0[segs[o][1]].vel ELSE Zero2
    /\ \A k \in 1..Len(hist.beh) :
          LET i   == Rec(k).who
              b0  == Rec(k).before
              b1  == After(k)
              own == {j \in 1..Len(segs[i]) : Present(segs[i][j])}
          IN /\ i = k
             /\ Rec(k).to = IF kinds[i] = "Snake"
                            THEN SnakeNextState(hist.attrs0[i], hist.cstate0[i])
                            ELSE PlanktonNextState(hist.attrs0[i], hist.cstate0[i],
                                                   IF Present(segs[i][1])
                                                   THEN hist.bodies0[segs[i][1]].pos[2]
                                                   ELSE 0)
             /\ kinds[i] = "Snake" =>
                   IF \E j \in own : SnakeCritical(b0[segs[i][j]].pos)
                   THEN \E base \in SafeBases :
                           \A j \in own :
                              /\ b1[segs[i][j]].pos = Plus(base, SegmentOffset("Snake", j - 1))
                              /\ j # 1 => b1[segs[i][j]].vel = Zero2
                   ELSE \A j \in own \ {1} :
                           b1[segs[i][j]] =
                              IF SnakeNearEdge(b0[segs[i][j]].pos)
                              THEN [b0[segs[i][j]] EXCEPT !.vel = Scale08(@)]
                              ELSE b0[segs[i][j]]
    /\ pc = "physics" =>
          \A i \in 1..N :
              kinds[i] = "Plankton" =>
                 DOMAIN hist.forces[i] = {j \in 1..Len(segs[i]) : Present(segs[i][j])}
    /\ pc = "done" =>
          \A i \in 1..N :
              LET own == {j \in 1..Len(segs[i]) : Present(segs[i][j])}
              IN /\ \A j \in own : WithinTolerance(bodies[segs[i][j]].pos)
                 /\ (\E j \in own : ~WithinTolerance(hist.stepped[segs[i][j]].pos))
                       => \A j \in own : bodies[segs[i][j]] = Origin

\* a snake whose second segment is absent came critically near the edge with its head,
\* and the behaviour pass has put the head and the segment behind the absent one in the
\* reset formation, while the snapshot holds the position of the head
C24_Witness ==
    /\ pc = "forces"
    /\ Gone(1) = {2}
    /\ SnakeCritical(Rec(1).before[segs[1][1]].pos)
    /\ ~SnakeNearEdge(Rec(1).before[segs[1][3]].pos)
    /\ \E base \in SafeBases :
          \A j \in {1, 3} : bodies[segs[1][j]].pos = Plus(base, SegmentOffset("Snake", j - 1))
    /\ info[1].position = hist.bodies0[segs[1][1]].pos

\* a plankton whose primary body is absent has been given the zero vector in the
\* snapshot and has chosen its state, and the tick has gone through all its phases
C24_WitnessPrimaryGone ==
    /\ pc = "done"
    /\ Gone(2) = {1}
    /\ info[2].position = Zero2
    /\ hist.log = TickOrder

\* the handles of a list, as a set
Listed(s) == {s[k] : k \in 1..Len(s)}

\* C25: after any sequence of set_target_segments(n) with 1 <= n, update_state and
\* reset_physics calls on a DemoCreature, rigid_body_handles has one handle per segment
\* and joint_handles one fewer, the handles are distinct and each refers to a body (a
\* joint) of the physics world, the physics world holds no body and no joint that is
\* not in the lists, and after update_state the number of segments is target_segments.
C25_DemoListsInLockStep ==
    /\ Len(test.rigid_body_handles) = test.segments
    /\ Len(test.joint_handles) = test.segments - 1
    /\ last.call.op = "update_state" => test.segments = test.target_segments
    /\ Listed(test.rigid_body_handles) = test.world.rigid_body_set
    /\ Cardinality(Listed(test.rigid_body_handles)) = Len(test.rigid_body_handles)
    /\ Listed(test.joint_handles) = DOMAIN test.world.joint_set
    /\ \A k \in 1..Len(test.joint_handles) :
          test.world.joint_set[test.joint_handles[k]]
             = <<test.rigid_body_handles[k], test.rigid_body_handles[k + 1]>>

\* a DemoCreature that was shrunk and grown again in the same physics world: its handle
\* list skips the handles of the bodies that were removed
C25_Witness ==
    /\ last.call.op = "update_state"
    /\ test.segments = 6
    /\ \E k \in 1..5 : test.rigid_body_handles[k + 1] > test.rigid_body_handles[k] + 1
    /\ test.world.next_body > DEMO_INITIAL_SEGMENTS

\* tick_simulation is not running: the state an observer reads through current_state()
\* and attributes()
BetweenTicks == pc \in {"idle", "done"}

\* C26, as stated: between ticks every creature of either species for which is_tired() is
\* true is in state Resting.
C26_AsStated ==
    BetweenTicks => \A i \in 1..N : IsTired(attrs[i]) => cstate[i] = "Resting"

\* C26, as the code has it: between ticks every Plankton for which is_tired() is true is
\* in state Resting; a Snake is in state Resting whenever is_tired() was true when its
\* transition of the tick was computed, and what the behaviour pass left is what is
\* read between ticks: neither the custom forces, the solver step nor the failsafe
\* touches a creature's attributes or state.
C26_TiredWhenDecidingMeansResting ==
    /\ [](/\ BetweenTicks =>
                \A i \in 1..N : kinds[i] = "Plankton" /\ IsTired(attrs[i]) => cstate[i] = "Resting"
          /\ \A k \in 1..Len(hist.beh) :
                IsTired(Rec(k).tattr) => Rec(k).to = "Resting"
          /\ pc = "forces" => \A i \in 1..N : cstate[i] = Rec(i).to)
    /\ [][(pc = "forces" \/ pc = "physics" \/ pc = "failsafe" \/ pc = "done")
             => (attrs' = attrs /\ cstate' = cstate)]_vars

\* a Snake that was Wandering was tired when its transition of the tick was computed,
\* has chosen Resting, and is read tired and Resting when the tick has returned
C26_Witness ==
    /\ pc = "forces"
    /\ kinds[1] = "Snake"
    /\ Rec(1).from = "Wandering"
    /\ IsTired(Rec(1).tattr)
    /\ IsTired(attrs[1])
    /\ cstate[1] = "Resting"

\* the energy creature i has after the metabolism update of the running tick without the
\* resting recovery, and with it
Drained(i) == UpdatePassiveStats(hist.began[i], dt, FALSE).energy
Recovered(i) == UpdatePassiveStats(hist.began[i], dt, TRUE).energy

\* C27: the energy a creature takes into the transition of tick t holds the resting
\* recovery energy_recovery_rate*dt if and only if the creature was Resting when tick t
\* began, which is its state at the end of tick t-1 since the state changes nowhere but
\* in the behaviour pass: a creature that enters Resting in a tick got no recovery in it,
\* and a creature that leaves Resting in a tick got it.
C27_RecoveryFollowsPreviousState ==
    /\ [](\A k \in 1..Len(hist.beh) :
             Rec(k).tattr.energy =
                IF Rec(k).from = "Resting" THEN Recovered(Rec(k).who) ELSE Drained(Rec(k).who))
    /\ [][(pc # "behave") => (cstate' = cstate)]_vars

\* in one tick the Snake has entered Resting without the recovery and a Plankton has
\* left Resting with it, the recovery being more than nothing for both
C27_Witness ==
    /\ pc = "forces"
    /\ \A i \in 1..N : Recovered(i) > Drained(i)
    /\ Rec(1).from # "Resting" /\ Rec(1).to = "Resting" /\ Rec(1).tattr.energy = Drained(1)
    /\ \E k \in 2..N :
          Rec(k).from = "Resting" /\ Rec(k).to # "Resting" /\ Rec(k).tattr.energy = Recovered(k)

\* C28: under the frame loop, with the dt of the run fixed and the parameters
\* SoftiesApp::default gives each species, a creature that is Resting is later
\* Wandering, and a Snake is Wandering again and again and Resting again and again.
C28_RestingEnds ==
    /\ (cstate[1] = "Resting") ~> (cstate[1] = "Wandering")
    /\ []<>(kinds[1] = "Snake" => cstate[1] = "Wandering")
    /\ []<>(kinds[1] = "Snake" => cstate[1] = "Resting")

\* a Snake that was Resting has chosen Wandering again
C28_Witness ==
    /\ pc = "forces"
    /\ kinds[1] = "Snake"
    /\ Rec(1).from = "Resting"
    /\ Rec(1).to = "Wandering"
    /\ attrs[1].satiety = 0

\* C29: no step of the simulation raises a creature's satiety, so a creature that is
\* hungry stays hungry; and a hungry Snake that is Resting and not tired leaves for
\* Wandering exactly when its energy is above 0.5 * max_energy.
C29_SatietyNeverRises ==
    /\ [][\A i \in 1..N :
             /\ attrs'[i].satiety <= attrs[i].satiety
             /\ IsHungry(attrs[i]) => IsHungry(attrs'[i])]_vars
    /\ [](\A k \in 1..Len(hist.beh) :
             (/\ kinds[Rec(k).who] = "Snake"
              /\ IsHungry(Rec(k).tattr)
              /\ ~IsTired(Rec(k).tattr)
              /\ Rec(k).from = "Resting")
             => (Rec(k).to = "Wandering" <=> Rec(k).tattr.energy * 10 > Rec(k).tattr.max_energy * 5))

\* a Snake that has become hungry during the run has left Resting with its energy
\* above 0.5 and not above 0.8 of max_energy
C29_Witness ==
    /\ pc = "forces"
    /\ kinds[1] = "Snake"
    /\ hist.began[1].satiety > 0
    /\ IsHungry(hist.began[1])
    /\ Rec(1).from = "Resting"
    /\ Rec(1).to = "Wandering"
    /\ Rec(1).tattr.energy * 10 <= Rec(1).tattr.max_energy * 8

====
